---- MODULE Spec2Model ----
(***************************************************************************)
(* Grid path-planning and collision-avoidance engine of ai_navigator:      *)
(* CollisionDetector (collision_detector.py), AStarPathfinder              *)
(* (pathfinding.py) and the SafetyState hooks of RobotNavigationAI         *)
(* (robot_ai.py).                                                          *)
(*                                                                         *)
(* Numbers.  World coordinates, sizes and margins are integers.  An        *)
(* obstacle's radius is size/2, so collision tests are written on doubled  *)
(* lengths.  Path costs and heuristic values are floats in the source;     *)
(* here they are fixed-point integers with Scale units per world unit      *)
(* (sqrt is the integer square root of the scaled square).                 *)
(***************************************************************************)
EXTENDS Integers, Sequences, FiniteSets, TLC

(***************************************************************************)
(* Bounds of the model.                                                    *)
(***************************************************************************)
CanvasWidth == 50
CanvasHeight == 40
MaxIterations == 12
MaxCollisions == 3
MaxHistory == 3
MaxObstacles == 2
MaxPathLen == 4
MaxFallbackCalls == 2
MaxRecords == 3
MaxGridSize == 6
FallbackCanvasWidth == 70
FallbackCanvasHeight == 60
Scale == 500

(***************************************************************************)
(* Program constants.                                                      *)
(***************************************************************************)
GRID_SIZE == 10
ROBOT_RADIUS == 18
SAFETY_MARGIN == 10
DefaultIncrement == 5
DefaultSize == 25
\* the tolerance 0.001 of Point.__eq__, in ten-thousandths of a world unit
Tolerance == 10

VARIABLES
    \* CollisionDetector
    robot_radius, base_safety_margin, current_safety_margin,
    collision_count, collision_history,
    \* RobotNavigationAI
    ai_collision_count, robot_position,
    \* the path being followed (<<>> stands for None) and the index of the
    \* waypoint to go to next
    current_path, current_waypoint_index,
    \* AStarPathfinder
    canvas_width, canvas_height, grid_size, grid_width, grid_height,
    last_search_iterations,
    \* the running find_path call: its arguments, locals and position
    pc, start, goal, obstacles, heuristic_type,
    counter, open_set, closed_set, came_from, g_score, f_score, iterations,
    current_grid, outcome, path,
    \* the cells the running find_path call has popped, in pop order
    popped,
    \* the last operation performed, and the increment of the last margin update
    op, last_increment,
    \* the last application of a pure function: its name, arguments and value
    query,
    \* RefinedPathfinder
    failed_attempts, fallback_strategies_used,
    \* the running find_path_with_fallbacks call: its arguments, locals and
    \* position, and the searches it has made so far
    fb,
    \* the find_path_with_fallbacks calls made, and those that returned None
    fallback_calls, fallback_failures,
    \* the find_path_with_fallbacks calls of the navigation loop and of the
    \* websocket thread on the one engine: the position of each, its local
    \* original_grid_size, and the grid before the calls
    threads

detector_vars == <<robot_radius, base_safety_margin, current_safety_margin,
                   collision_count, collision_history>>
ai_vars == <<ai_collision_count, robot_position, current_path,
             current_waypoint_index>>
grid_vars == <<canvas_width, canvas_height, grid_size, grid_width, grid_height>>
call_vars == <<pc, start, goal, obstacles, heuristic_type, counter, open_set,
               closed_set, came_from, g_score, f_score, iterations, current_grid,
               outcome, path, popped>>
fallback_vars == <<failed_attempts, fallback_strategies_used, fb,
                   fallback_calls, fallback_failures, threads>>
vars == <<detector_vars, ai_vars, grid_vars, last_search_iterations, call_vars,
          op, last_increment, query, fallback_vars>>

(***************************************************************************)
(* Values.                                                                 *)
(***************************************************************************)
None == "None"
Point(x, y) == <<x, y>>
Obstacle(x, y, size) == [center |-> Point(x, y), size |-> size]
NoCells == {}
EmptyMap == [c \in {} |-> c]

Range(seq) == {seq[i] : i \in 1..Len(seq)}

Abs(a) == IF a < 0 THEN -a ELSE a
Max2(a, b) == IF a >= b THEN a ELSE b
Min2(a, b) == IF a <= b THEN a ELSE b

RECURSIVE IsqrtIter(_, _, _)
IsqrtIter(n, lo, hi) ==
    IF lo >= hi THEN lo
    ELSE LET mid == (lo + hi + 1) \div 2
         IN  IF mid * mid <= n THEN IsqrtIter(n, mid, hi)
                               ELSE IsqrtIter(n, lo, mid - 1)

\* floor of the square root
Isqrt(n) == IsqrtIter(n, 0, 46340)

\* the squared distance of two points
DistanceSq(p1, p2) ==
    (p1[1] - p2[1]) * (p1[1] - p2[1]) + (p1[2] - p2[2]) * (p1[2] - p2[2])

\* math.sqrt((p1.x - p2.x)**2 + (p1.y - p2.y)**2), in Scale units
euclidean_distance(p1, p2) == Isqrt(DistanceSq(p1, p2) * Scale * Scale)

(***************************************************************************)
(* CollisionDetector.                                                      *)
(***************************************************************************)
\* twice robot_radius + obstacle.radius + current_safety_margin
CollisionDistance2(obstacle, radius, margin) ==
    2 * radius + obstacle.size + 2 * margin

will_collide_mutant_le(robot_pos, obstacle, radius, margin) ==
    LET cd2 == CollisionDistance2(obstacle, radius, margin)
    IN  cd2 >= 0 /\ 4 * DistanceSq(robot_pos, obstacle.center) <= cd2 * cd2

\* distance < collision_distance
will_collide_with_obstacle(robot_pos, obstacle, radius, margin) ==
    LET cd2 == CollisionDistance2(obstacle, radius, margin)
    IN  cd2 > 0 /\ 4 * DistanceSq(robot_pos, obstacle.center) < cd2 * cd2

will_collide_with_any_obstacle(robot_pos, obs, radius, margin) ==
    \E i \in 1..Len(obs) :
        will_collide_with_obstacle(robot_pos, obs[i], radius, margin)

update_margin_mutant_accumulate(count, increment) ==
    /\ collision_count' = count
    /\ current_safety_margin' = current_safety_margin + count * increment

\* CollisionDetector.update_safety_margin
update_safety_margin(count, increment) ==
    /\ collision_count' = count
    /\ current_safety_margin' = base_safety_margin + count * increment

record_collision_mutant_old_margin(robot_pos, obstacle_pos) ==
    collision_history' = Append(collision_history,
        [position |-> robot_pos, obstacle |-> obstacle_pos,
         safety_margin |-> base_safety_margin])

\* CollisionDetector.record_collision; it reads the margin of the moment it runs
record_collision(robot_pos, obstacle_pos) ==
    collision_history' = Append(collision_history,
        [position |-> robot_pos, obstacle |-> obstacle_pos,
         safety_margin |-> current_safety_margin'])

(***************************************************************************)
(* Operations on the SafetyState: the CollisionDetector's own methods and  *)
(* the RobotNavigationAI handlers that call them.  They run between        *)
(* planning calls (pc = "idle").                                           *)
(***************************************************************************)
NoQuery == [fn |-> "none"]

\* positions a collision is reported at
Positions == {Point(320, 300)}
\* increments a caller passes to update_safety_margin (5 is the default)
Increments == {DefaultIncrement, 2 * DefaultIncrement}

\* a direct call of CollisionDetector.update_safety_margin(count, increment)
UpdateSafetyMargin(count, increment) ==
    /\ pc = "idle"
    /\ update_safety_margin(count, increment)
    /\ last_increment' = increment
    /\ op' = "update_safety_margin"
    /\ UNCHANGED <<robot_radius, base_safety_margin, collision_history, ai_vars,
                   grid_vars, last_search_iterations, call_vars, query>>
    /\ UNCHANGED fallback_vars

\* a direct call of CollisionDetector.record_collision(position)
RecordCollision(robot_pos) ==
    /\ pc = "idle"
    /\ Len(collision_history) < MaxHistory
    /\ UNCHANGED <<robot_radius, base_safety_margin, current_safety_margin,
                   collision_count>>
    /\ record_collision(robot_pos, None)
    /\ op' = "record_collision"
    /\ UNCHANGED <<ai_vars, grid_vars, last_search_iterations, call_vars,
                   last_increment, query>>
    /\ UNCHANGED fallback_vars

\* RobotNavigationAI.reset_navigation: the reset happens when the server answers 200
ResetNavigation(status_ok) ==
    /\ pc = "idle"
    /\ IF status_ok
       THEN /\ ai_collision_count' = 0
            /\ collision_count' = 0
            /\ current_safety_margin' = base_safety_margin
       ELSE UNCHANGED <<ai_collision_count, collision_count, current_safety_margin>>
    /\ op' = "reset_navigation"
    /\ UNCHANGED <<robot_radius, base_safety_margin, collision_history,
                   robot_position, current_path,
                   current_waypoint_index, grid_vars, last_search_iterations, call_vars,
                   last_increment, query>>
    /\ UNCHANGED fallback_vars

\* RobotNavigationAI._process_websocket_message, a "collision" message, with
\* _handle_collision_response: count, widen the margin, record the collision
ProcessWebsocketCollision ==
    /\ pc = "idle"
    /\ ai_collision_count < MaxCollisions
    /\ Len(collision_history) < MaxHistory
    /\ ai_collision_count' = ai_collision_count + 1
    /\ update_safety_margin(ai_collision_count + 1, DefaultIncrement)
    /\ last_increment' = DefaultIncrement
    /\ record_collision(robot_position, None)
    /\ op' = "websocket_collision"
    /\ UNCHANGED <<robot_radius, base_safety_margin, robot_position, current_path,
                   current_waypoint_index, grid_vars,
                   last_search_iterations, call_vars, query>>
    /\ UNCHANGED fallback_vars

\* RobotNavigationAI._update_environment_state: the server's status answer
\* carries its collision_count, which replaces the local one
UpdateEnvironmentState(status_ok, server_count) ==
    /\ pc = "idle"
    /\ IF status_ok
       THEN /\ ai_collision_count' = server_count
            /\ update_safety_margin(server_count, DefaultIncrement)
            /\ last_increment' = DefaultIncrement
       ELSE UNCHANGED <<ai_collision_count, collision_count,
                        current_safety_margin, last_increment>>
    /\ op' = "update_environment_state"
    /\ UNCHANGED <<robot_radius, base_safety_margin, collision_history,
                   robot_position, current_path,
                   current_waypoint_index, grid_vars, last_search_iterations, call_vars,
                   query>>
    /\ UNCHANGED fallback_vars

\* the idle find_path_with_fallbacks frame
NoFallback ==
    [pc |-> "idle", start |-> None, goal |-> None, obstacles |-> <<>>,
     original_grid_size |-> 0, candidates |-> <<>>, index |-> 0,
     path1 |-> <<>>, safe_goal |-> None, found |-> <<>>, result |-> <<>>,
     searches |-> <<>>, entry_grid |-> <<>>]

\* RefinedPathfinder.__init__
\* the two threads of RobotNavigationAI that call calculate_path_to_goal: the
\* navigation loop and the websocket thread's collision handler
Threads == {"navigation", "websocket"}

NoThreadCall == [pc |-> "idle", original_grid_size |-> 0, found |-> FALSE,
                 before |-> <<0, 0, 0>>]

InitFallbackState ==
    /\ failed_attempts = 0
    /\ fallback_strategies_used = <<>>
    /\ fb = NoFallback
    /\ fallback_calls = 0
    /\ fallback_failures = 0
    /\ threads = [t \in Threads |-> NoThreadCall]

\* the idle find_path frame
IdleCall ==
    /\ pc = "idle"
    /\ start = None /\ goal = None /\ obstacles = <<>> /\ heuristic_type = None
    /\ counter = 0 /\ open_set = {} /\ closed_set = NoCells
    /\ came_from = EmptyMap /\ g_score = EmptyMap /\ f_score = EmptyMap
    /\ iterations = 0 /\ current_grid = None /\ outcome = None /\ path = <<>>
    /\ popped = <<>>

\* RobotNavigationAI.__init__ with the constants of config.py
InitSafety ==
    /\ robot_radius = ROBOT_RADIUS
    /\ base_safety_margin = SAFETY_MARGIN
    /\ current_safety_margin = SAFETY_MARGIN
    /\ collision_count = 0
    /\ collision_history = <<>>
    /\ ai_collision_count = 0
    /\ robot_position = Point(320, 300)
    /\ current_path = <<>> /\ current_waypoint_index = 0
    /\ canvas_width = 650 /\ canvas_height = 600
    /\ grid_size = GRID_SIZE
    /\ grid_width = 650 \div GRID_SIZE /\ grid_height = 600 \div GRID_SIZE
    /\ last_search_iterations = 0
    /\ IdleCall
    /\ op = "init"
    /\ last_increment = DefaultIncrement
    /\ query = NoQuery
    /\ InitFallbackState

NextSafety ==
    \/ \E count \in 0..MaxCollisions, increment \in Increments :
           UpdateSafetyMargin(count, increment)
    \/ \E pos \in Positions : RecordCollision(pos)
    \/ \E status_ok \in BOOLEAN : ResetNavigation(status_ok)
    \/ ProcessWebsocketCollision
    \/ \E status_ok \in BOOLEAN, server_count \in 0..MaxCollisions :
           UpdateEnvironmentState(status_ok, server_count)

SpecSafety == InitSafety /\ [][NextSafety]_vars

(***************************************************************************)
(* AStarPathfinder: the grid mapper.                                       *)
(***************************************************************************)
grid_to_world(grid_point) ==
    Point(grid_point[1] * grid_size, grid_point[2] * grid_size)

\* the quotient cut towards zero
Truncate(a, b) == IF a >= 0 THEN a \div b ELSE -((-a) \div b)

world_to_grid_mutant_truncate(world_point) ==
    Point(Truncate(world_point[1], grid_size), Truncate(world_point[2], grid_size))

\* int(x // grid_size): the floor, also of a negative coordinate
world_to_grid(world_point) ==
    Point(world_point[1] \div grid_size, world_point[2] \div grid_size)

snap_to_grid(point) == grid_to_world(world_to_grid(point))

is_valid_grid_point(grid_point) ==
    /\ 0 <= grid_point[1] /\ grid_point[1] < grid_width
    /\ 0 <= grid_point[2] /\ grid_point[2] < grid_height

\* the engine of this model always holds its collision detector
is_world_point_safe(world_point, obs) ==
    ~will_collide_with_any_obstacle(world_point, obs, robot_radius,
                                    current_safety_margin)

\* CollisionDetector.is_path_clear with the default resolution 5: the segment
\* is sampled at t = i / num_checks, i = 0..num_checks, with
\* num_checks = max(5, int(distance / 5)).  A sample point has rational
\* coordinates; the test at start + (i / n) * (end - start) is made on all
\* lengths multiplied by n, which leaves the comparison unchanged.
is_path_clear(start_point, end_point, obs) ==
    LET d2 == DistanceSq(start_point, end_point)
        n == Max2(5, Isqrt(d2 \div 25))
        check_point(i) ==
            Point(n * start_point[1] + i * (end_point[1] - start_point[1]),
                  n * start_point[2] + i * (end_point[2] - start_point[2]))
        scaled(o) == Obstacle(n * o.center[1], n * o.center[2], n * o.size)
    IN  \/ d2 = 0
        \/ \A i \in 0..n : \A k \in 1..Len(obs) :
               ~will_collide_with_obstacle(check_point(i), scaled(obs[k]),
                                           n * robot_radius,
                                           n * current_safety_margin)

(***************************************************************************)
(* AStarPathfinder: heuristic and edge cost, in Scale units.               *)
(***************************************************************************)
heuristic(current, goal_point, type) ==
    LET dx == Abs(current[1] - goal_point[1])
        dy == Abs(current[2] - goal_point[2])
    IN  IF type = "manhattan" THEN (dx + dy) * Scale
        ELSE IF type = "diagonal"
        THEN Max2(dx, dy) * Scale
             + (Isqrt(2 * Min2(dx, dy) * Min2(dx, dy) * Scale * Scale)
                - Min2(dx, dy) * Scale)
        ELSE euclidean_distance(current, goal_point)

get_movement_cost(from_point, to_point) ==
    LET dx == Abs(from_point[1] - to_point[1])
        dy == Abs(from_point[2] - to_point[2])
    IN  IF dx = grid_size /\ dy = grid_size
        THEN Isqrt(2 * grid_size * grid_size * Scale * Scale)
        ELSE grid_size * Scale

(***************************************************************************)
(* AStarPathfinder: neighbours, reconstruction, the relaxation of one      *)
(* expanded cell.                                                          *)
(***************************************************************************)
directions == << <<-1, -1>>, <<-1, 0>>, <<-1, 1>>,
                 <<0, -1>>,             <<0, 1>>,
                 <<1, -1>>,  <<1, 0>>,  <<1, 1>> >>

neighbors_mutant_unbounded(cur, obs) ==
    LET cand == [i \in 1..Len(directions) |->
                    Point(cur[1] + directions[i][1],
                          cur[2] + directions[i][2])]
        ok(c) == is_world_point_safe(grid_to_world(c), obs)
    IN  SelectSeq(cand, ok)

\* the in-bounds, collision-free neighbours, in the order of `directions`
get_valid_neighbors(cur, obs) ==
    LET cand == [i \in 1..Len(directions) |->
                    Point(cur[1] + directions[i][1],
                          cur[2] + directions[i][2])]
        ok(c) == /\ is_valid_grid_point(c)
                 /\ is_world_point_safe(grid_to_world(c), obs)
    IN  SelectSeq(cand, ok)

RECURSIVE reconstruct_mutant_no_start(_, _)
reconstruct_mutant_no_start(came, current) ==
    IF current \notin DOMAIN came THEN <<>>
    ELSE Append(reconstruct_mutant_no_start(came, came[current]),
                grid_to_world(current))

\* follow came_from back from `current` to the cell without a predecessor;
\* the result is in start-to-goal order, each cell as its world lower corner
RECURSIVE reconstruct_path(_, _)
reconstruct_path(came, current) ==
    IF current \notin DOMAIN came THEN <<grid_to_world(current)>>
    ELSE Append(reconstruct_path(came, came[current]), grid_to_world(current))

\* the look-ahead loop of smooth_path: j - 1 is the furthest index reached so
\* far from index i; the loop stops at the first j that is not directly
\* reachable
RECURSIVE furthest_reachable(_, _, _, _)
furthest_reachable(p, i, j, obs) ==
    IF j <= Len(p) /\ is_path_clear(p[i], p[j], obs)
    THEN furthest_reachable(p, i, j + 1, obs)
    ELSE j - 1

\* the while loop of smooth_path from index i (1-based): the waypoints appended
\* after path[i]
RECURSIVE smooth_from(_, _, _)
smooth_from(p, i, obs) ==
    IF i >= Len(p) THEN <<>>
    ELSE LET f == furthest_reachable(p, i, i + 2, obs)
         IN  <<p[f]>> \o smooth_from(p, f, obs)

smooth_mutant_skip_start(p, obs) ==
    IF Len(p) <= 2 THEN p ELSE smooth_from(p, 1, obs)

\* AStarPathfinder.smooth_path
smooth_path(p, obs) ==
    IF Len(p) <= 2 THEN p ELSE <<p[1]>> \o smooth_from(p, 1, obs)

MapSet(m, k, v) == (k :> v) @@ m

heappop_mutant_lifo(open) ==
    CHOOSE e \in open :
        \A o \in open : o = e \/ e[1] < o[1] \/ (e[1] = o[1] /\ e[2] > o[2])

\* heapq.heappop on (f_score, counter, grid_point) tuples: the least f_score,
\* and among equal f_scores the least counter
heappop(open) ==
    CHOOSE e \in open :
        \A o \in open : o = e \/ e[1] < o[1] \/ (e[1] = o[1] /\ e[2] < o[2])

relax_neighbor_mutant_reopen(st, cur, nb, closed, goal_point, type) ==
    LET current_world == grid_to_world(cur)
        neighbor_world == grid_to_world(nb)
        tentative_g == st.g[cur]
                       + get_movement_cost(current_world, neighbor_world)
    IN  IF nb \in DOMAIN st.g /\ ~(tentative_g < st.g[nb])
        THEN st
        ELSE
            LET f == tentative_g + heuristic(neighbor_world, goal_point, type)
                in_open == \E e \in st.open : e[3] = nb
            IN  [open |-> IF in_open THEN st.open
                          ELSE st.open \cup {<<f, st.counter + 1, nb>>},
                 came |-> MapSet(st.came, nb, cur),
                 g |-> MapSet(st.g, nb, tentative_g),
                 f |-> MapSet(st.f, nb, f),
                 counter |-> IF in_open THEN st.counter ELSE st.counter + 1]

\* the body of the neighbour loop for one neighbour; st holds the locals
\* open_set, came_from, g_score, f_score and counter
relax_neighbor(st, cur, nb, closed, goal_point, type) ==
    IF nb \in closed THEN st
    ELSE
        LET current_world == grid_to_world(cur)
            neighbor_world == grid_to_world(nb)
            tentative_g == st.g[cur]
                           + get_movement_cost(current_world, neighbor_world)
        IN  IF nb \in DOMAIN st.g /\ ~(tentative_g < st.g[nb])
            THEN st
            ELSE
                LET f == tentative_g + heuristic(neighbor_world, goal_point, type)
                    in_open == \E e \in st.open : e[3] = nb
                IN  [open |-> IF in_open THEN st.open
                              ELSE st.open \cup {<<f, st.counter + 1, nb>>},
                     came |-> MapSet(st.came, nb, cur),
                     g |-> MapSet(st.g, nb, tentative_g),
                     f |-> MapSet(st.f, nb, f),
                     counter |-> IF in_open THEN st.counter ELSE st.counter + 1]

RECURSIVE relax_all(_, _, _, _, _, _)
relax_all(st, cur, nbs, closed, goal_point, type) ==
    IF nbs = <<>> THEN st
    ELSE relax_all(relax_neighbor(st, cur, Head(nbs), closed,
                                  goal_point, type),
                   cur, Tail(nbs), closed, goal_point, type)

(***************************************************************************)
(* AStarPathfinder.find_path as a function of its arguments and of the     *)
(* fields it reads (grid size and dimensions, the detector's radius and    *)
(* margin): the cells popped, in pop order, and the value returned.        *)
(***************************************************************************)
\* the while loop from its n-th pass on; st holds the locals open_set,
\* came_from, g_score, f_score and counter
RECURSIVE search_from(_, _, _, _, _, _, _)
search_from(st, closed, n, pops, g, obs, type) ==
    IF st.open = {} \/ n >= MaxIterations
    THEN [popped |-> pops, path |-> <<>>]
    ELSE LET e == heappop(st.open)
         IN  IF e[3] = world_to_grid(g)
             THEN [popped |-> Append(pops, e[3]),
                   path |-> reconstruct_path(st.came, e[3])]
             ELSE search_from(
                      relax_all([st EXCEPT !.open = st.open \ {e}], e[3],
                                get_valid_neighbors(e[3], obs),
                                closed \cup {e[3]}, g, type),
                      closed \cup {e[3]}, n + 1, Append(pops, e[3]),
                      g, obs, type)

find_path(s, g, obs, type) ==
    IF \/ ~(is_valid_grid_point(world_to_grid(s)) /\ is_valid_grid_point(world_to_grid(g)))
       \/ ~(is_world_point_safe(s, obs) /\ is_world_point_safe(g, obs))
    THEN [popped |-> <<>>, path |-> <<>>]
    ELSE search_from([open |-> {<<heuristic(s, g, type), 1, world_to_grid(s)>>},
                      came |-> EmptyMap,
                      g |-> (world_to_grid(s) :> 0),
                      f |-> (world_to_grid(s) :> heuristic(s, g, type)),
                      counter |-> 1],
                     NoCells, 0, <<>>, g, obs, type)

(***************************************************************************)
(* AStarPathfinder.find_path as a state machine: the call (preconditions   *)
(* and the first push), one action per pass of the while loop, the exit of *)
(* the loop, and the return to the caller.                                 *)
(***************************************************************************)
find_path_mutant_goal_unchecked(s, g, obs, type) ==
    /\ start' = s /\ goal' = g /\ obstacles' = obs /\ heuristic_type' = type
    /\ IF ~(is_valid_grid_point(world_to_grid(s)) /\ is_valid_grid_point(world_to_grid(g)))
       THEN /\ pc' = "done" /\ outcome' = "out_of_bounds" /\ path' = <<>>
            /\ UNCHANGED <<counter, open_set, closed_set, came_from, g_score,
                           f_score, iterations, current_grid, popped>>
       ELSE IF ~(is_world_point_safe(s, obs))
       THEN /\ pc' = "done" /\ outcome' = "blocked" /\ path' = <<>>
            /\ UNCHANGED <<counter, open_set, closed_set, came_from, g_score,
                           f_score, iterations, current_grid, popped>>
       ELSE /\ counter' = 1
            /\ open_set' = {<<heuristic(s, g, type), 1, world_to_grid(s)>>}
            /\ closed_set' = NoCells
            /\ came_from' = EmptyMap
            /\ g_score' = (world_to_grid(s) :> 0)
            /\ f_score' = (world_to_grid(s) :> heuristic(s, g, type))
            /\ iterations' = 0
            /\ pc' = "explore"
            /\ UNCHANGED <<current_grid, outcome, path, popped>>

\* lines 138-165: the two precondition checks, each returning None, then the
\* locals of the search and the push of the start cell
find_path_enter_mutant_start_unchecked(s, g, obs, type) ==
    /\ start' = s /\ goal' = g /\ obstacles' = obs /\ heuristic_type' = type
    /\ IF ~(is_valid_grid_point(world_to_grid(s)) /\ is_valid_grid_point(world_to_grid(g)))
       THEN /\ pc' = "done" /\ outcome' = "out_of_bounds" /\ path' = <<>>
            /\ UNCHANGED <<counter, open_set, closed_set, came_from, g_score,
                           f_score, iterations, current_grid, popped>>
       ELSE IF ~is_world_point_safe(g, obs)
       THEN /\ pc' = "done" /\ outcome' = "blocked" /\ path' = <<>>
            /\ UNCHANGED <<counter, open_set, closed_set, came_from, g_score,
                           f_score, iterations, current_grid, popped>>
       ELSE /\ counter' = 1
            /\ open_set' = {<<heuristic(s, g, type), 1, world_to_grid(s)>>}
            /\ closed_set' = NoCells
            /\ came_from' = EmptyMap
            /\ g_score' = (world_to_grid(s) :> 0)
            /\ f_score' = (world_to_grid(s) :> heuristic(s, g, type))
            /\ iterations' = 0
            /\ pc' = "explore"
            /\ UNCHANGED <<current_grid, outcome, path, popped>>

find_path_enter(s, g, obs, type) ==
    /\ start' = s /\ goal' = g /\ obstacles' = obs /\ heuristic_type' = type
    /\ IF ~(is_valid_grid_point(world_to_grid(s)) /\ is_valid_grid_point(world_to_grid(g)))
       THEN /\ pc' = "done" /\ outcome' = "out_of_bounds" /\ path' = <<>>
            /\ UNCHANGED <<counter, open_set, closed_set, came_from, g_score,
                           f_score, iterations, current_grid, popped>>
       ELSE IF ~(is_world_point_safe(s, obs) /\ is_world_point_safe(g, obs))
       THEN /\ pc' = "done" /\ outcome' = "blocked" /\ path' = <<>>
            /\ UNCHANGED <<counter, open_set, closed_set, came_from, g_score,
                           f_score, iterations, current_grid, popped>>
       ELSE /\ counter' = 1
            /\ open_set' = {<<heuristic(s, g, type), 1, world_to_grid(s)>>}
            /\ closed_set' = NoCells
            /\ came_from' = EmptyMap
            /\ g_score' = (world_to_grid(s) :> 0)
            /\ f_score' = (world_to_grid(s) :> heuristic(s, g, type))
            /\ iterations' = 0
            /\ pc' = "explore"
            /\ UNCHANGED <<current_grid, outcome, path, popped>>

\* a find_path call made directly on the pathfinder
FindPath(s, g, obs, type) ==
    /\ pc = "idle" /\ fb.pc = "idle"
    /\ find_path_enter(s, g, obs, type)
    /\ op' = "find_path"
    /\ UNCHANGED <<detector_vars, ai_vars, grid_vars, last_search_iterations,
                   last_increment, query, fallback_vars>>

LoopCondition_mutant_no_cap == open_set # {}

\* while open_set and iterations < max_iterations
LoopCondition == open_set # {} /\ iterations < MaxIterations

\* lines 169-181: a pass that pops the goal cell and returns the path
ExploreGoal ==
    /\ pc = "explore"
    /\ LoopCondition
    /\ LET e == heappop(open_set)
       IN  /\ e[3] = world_to_grid(goal)
           /\ current_grid' = e[3]
           /\ popped' = Append(popped, e[3])
           /\ iterations' = iterations + 1
           /\ open_set' = open_set \ {e}
           /\ last_search_iterations' = iterations + 1
           /\ path' = reconstruct_path(came_from, e[3])
           /\ outcome' = "goal_reached"
           /\ pc' = "done"
    /\ UNCHANGED <<detector_vars, ai_vars, grid_vars, start, goal, obstacles,
                   heuristic_type, counter, closed_set, came_from, g_score,
                   f_score, op, last_increment, query>>
    /\ UNCHANGED fallback_vars

\* lines 169-206: a pass that pops another cell, closes it and relaxes its
\* neighbours
ExploreExpand ==
    /\ pc = "explore"
    /\ LoopCondition
    /\ LET e == heappop(open_set)
           closed == closed_set \cup {e[3]}
           st == relax_all([open |-> open_set \ {e}, came |-> came_from,
                            g |-> g_score, f |-> f_score, counter |-> counter],
                           e[3], get_valid_neighbors(e[3], obstacles), closed,
                           goal, heuristic_type)
       IN  /\ e[3] # world_to_grid(goal)
           /\ current_grid' = e[3]
           /\ popped' = Append(popped, e[3])
           /\ iterations' = iterations + 1
           /\ closed_set' = closed
           /\ open_set' = st.open
           /\ came_from' = st.came
           /\ g_score' = st.g
           /\ f_score' = st.f
           /\ counter' = st.counter
    /\ UNCHANGED <<detector_vars, ai_vars, grid_vars, last_search_iterations,
                   pc, start, goal, obstacles, heuristic_type, outcome, path,
                   op, last_increment, query>>
    /\ UNCHANGED fallback_vars

\* lines 208-212: the loop ended without reaching the goal
LoopExit ==
    /\ pc = "explore"
    /\ ~LoopCondition
    /\ last_search_iterations' = iterations
    /\ path' = <<>>
    /\ outcome' = "no_path"
    /\ pc' = "done"
    /\ UNCHANGED <<detector_vars, ai_vars, grid_vars, start, goal, obstacles,
                   heuristic_type, counter, open_set, closed_set, came_from,
                   g_score, f_score, iterations, current_grid, popped, op,
                   last_increment, query>>
    /\ UNCHANGED fallback_vars

\* the locals of a find_path call are gone when it has returned
find_path_leave ==
    /\ pc' = "idle"
    /\ start' = None /\ goal' = None /\ obstacles' = <<>> /\ heuristic_type' = None
    /\ counter' = 0 /\ open_set' = {} /\ closed_set' = NoCells
    /\ came_from' = EmptyMap /\ g_score' = EmptyMap /\ f_score' = EmptyMap
    /\ iterations' = 0 /\ current_grid' = None /\ outcome' = None /\ path' = <<>>
    /\ popped' = <<>>

\* the caller of a direct find_path call takes the result
Return ==
    /\ pc = "done" /\ fb.pc = "idle"
    /\ find_path_leave
    /\ UNCHANGED <<detector_vars, ai_vars, grid_vars, last_search_iterations,
                   op, last_increment, query, fallback_vars>>

(***************************************************************************)
(* The engine on its own: a pathfinder and its collision detector built    *)
(* with the model's canvas, robot radius and base margin, and called with  *)
(* start, goal, obstacle snapshot and heuristic from bounded sets.         *)
(***************************************************************************)
RobotRadii == {2}
BaseMargins == {1}
Starts == {Point(5, 5), Point(-5, 5)}
Goals == {Point(42, 21), Point(8, 5), Point(55, 5), Point(40, 0)}
ObstaclePool == << Obstacle(0, 0, 2), Obstacle(30, 10, 2), Obstacle(30, 20, 2),
                   Obstacle(20, 20, 14) >>
HeuristicTypes == {"euclidean", "manhattan", "diagonal"}

\* the snapshots: the obstacles of the pool at up to MaxObstacles indices, in
\* pool order
ObstacleLists ==
    LET pick(I) == LET n == Cardinality(I)
                       idx == CHOOSE f \in [1..n -> I] :
                                  \A i, j \in 1..n : i < j => f[i] < f[j]
                   IN  [i \in 1..n |-> ObstaclePool[idx[i]]]
    IN  {pick(I) : I \in {J \in SUBSET (1..Len(ObstaclePool)) :
                              Cardinality(J) <= MaxObstacles}}

Init ==
    /\ robot_radius \in RobotRadii
    /\ base_safety_margin \in BaseMargins
    /\ current_safety_margin = base_safety_margin
    /\ collision_count = 0
    /\ collision_history = <<>>
    /\ ai_collision_count = 0
    /\ robot_position = Point(5, 5)
    /\ current_path = <<>> /\ current_waypoint_index = 0
    /\ canvas_width = CanvasWidth /\ canvas_height = CanvasHeight
    /\ grid_size = GRID_SIZE
    /\ grid_width = CanvasWidth \div GRID_SIZE
    /\ grid_height = CanvasHeight \div GRID_SIZE
    /\ last_search_iterations = 0
    /\ IdleCall
    /\ op = "init"
    /\ last_increment = DefaultIncrement
    /\ query = NoQuery
    /\ InitFallbackState

Next ==
    \/ \E count \in 0..MaxCollisions : UpdateSafetyMargin(count, DefaultIncrement)
    \/ \E s \in Starts, g \in Goals, obs \in ObstacleLists, type \in HeuristicTypes :
           FindPath(s, g, obs, type)
    \/ ExploreGoal
    \/ ExploreExpand
    \/ LoopExit
    \/ Return

Spec == Init /\ [][Next]_vars

(***************************************************************************)
(* The pure functions on their own: each action applies one function to    *)
(* arguments from bounded sets under the current SafetyState and keeps the *)
(* arguments and the value in `query`.                                     *)
(***************************************************************************)
QueryPoints == {Point(GRID_SIZE * i, GRID_SIZE * j) : i \in 0..4, j \in 0..3}

QueryWillCollide(robot_pos, obstacle) ==
    /\ pc = "idle"
    /\ query' = [fn |-> "will_collide_with_obstacle",
                 robot_pos |-> robot_pos, obstacle |-> obstacle,
                 margin |-> current_safety_margin,
                 result |-> will_collide_with_obstacle(robot_pos, obstacle,
                                robot_radius, current_safety_margin)]
    /\ op' = "will_collide_with_obstacle"
    /\ UNCHANGED <<detector_vars, ai_vars, grid_vars, last_search_iterations,
                   call_vars, last_increment>>
    /\ UNCHANGED fallback_vars

\* waypoints of the paths given to smooth_path
PathPoints == {Point(20, 10), Point(30, 20), Point(40, 10), Point(40, 20)}

\* the paths of up to MaxPathLen waypoints, no waypoint twice
Paths ==
    UNION {{p \in [1..n -> PathPoints] :
               \A i, j \in 1..n : i # j => p[i] # p[j]} : n \in 0..MaxPathLen}

\* the obstacle snapshots given to smooth_path
SmoothObstacleLists ==
    {<<>>, <<ObstaclePool[2]>>, <<ObstaclePool[2], ObstaclePool[4]>>}

QuerySmoothPath(p, obs) ==
    /\ pc = "idle"
    /\ query' = [fn |-> "smooth_path", path |-> p, obstacles |-> obs,
                 margin |-> current_safety_margin,
                 result |-> smooth_path(p, obs)]
    /\ op' = "smooth_path"
    /\ UNCHANGED <<detector_vars, ai_vars, grid_vars, last_search_iterations,
                   call_vars, last_increment>>
    /\ UNCHANGED fallback_vars

NextPure ==
    \/ \E count \in 0..MaxCollisions : UpdateSafetyMargin(count, DefaultIncrement)
    \/ \E p \in QueryPoints, i \in 1..Len(ObstaclePool) :
           QueryWillCollide(p, ObstaclePool[i])

SpecPure == Init /\ [][NextPure]_vars

\* smooth_path on its own, under every margin the detector can hold
NextSmooth ==
    \/ \E count \in 0..MaxCollisions : UpdateSafetyMargin(count, DefaultIncrement)
    \/ \E p \in Paths, obs \in SmoothObstacleLists : QuerySmoothPath(p, obs)

SpecSmooth == Init /\ [][NextSmooth]_vars

(***************************************************************************)
(* RefinedPathfinder: the candidate points of the fallback strategies.     *)
(* math.cos and math.sin are taken from tables in thousandths.  A test     *)
(* point of get_safe_position_near_point is kept in hundredths of a world  *)
(* unit; a point handed on to find_path is rounded to the nearest world    *)
(* unit.                                                                   *)
(***************************************************************************)
\* cos and sin of 0, 45, ..., 315 degrees, in thousandths
cos45 == <<1000, 707, 0, -707, -1000, -707, 0, 707>>
sin45 == <<0, 707, 1000, 707, 0, -707, -1000, -707>>

\* cos and sin of 0, 22, ..., 352 degrees, in thousandths
cos22 == <<1000, 927, 719, 407, 35, -342, -669, -899, -998, -951, -766, -469,
           -105, 276, 616, 866, 990>>
sin22 == <<0, 375, 695, 914, 999, 940, 743, 438, 70, -309, -643, -883, -995,
           -961, -788, -500, -139>>

\* x / d rounded to the nearest integer, d > 0
Round(x, d) == (2 * x + d) \div (2 * d)

\* RefinedPathfinder._generate_intermediate_candidates: the points at radius
\* 30, 60 and 100 around the midpoint of start and goal that lie at least 20
\* inside the canvas, then the four points 50 inside the canvas corners.
\* Coordinates of the ring points are kept in units of 1/2000 until rounded.
generate_intermediate_candidates(s, g) ==
    LET radii == <<30, 60, 100>>
        ring == [n \in 1..24 |->
                    LET radius == radii[((n - 1) \div 8) + 1]
                        k == ((n - 1) % 8) + 1
                    IN  <<1000 * (s[1] + g[1]) + 2 * radius * cos45[k],
                          1000 * (s[2] + g[2]) + 2 * radius * sin45[k]>>]
        is_point_in_bounds(c) ==
            /\ 20 * 2000 <= c[1] /\ c[1] < (canvas_width - 20) * 2000
            /\ 20 * 2000 <= c[2] /\ c[2] < (canvas_height - 20) * 2000
        kept == SelectSeq(ring, is_point_in_bounds)
        corner_margin == 50
    IN  [n \in 1..Len(kept) |-> Point(Round(kept[n][1], 2000),
                                      Round(kept[n][2], 2000))]
        \o << Point(corner_margin, corner_margin),
              Point(canvas_width - corner_margin, corner_margin),
              Point(corner_margin, canvas_height - corner_margin),
              Point(canvas_width - corner_margin, canvas_height - corner_margin) >>

\* a world point in hundredths of a world unit, and back to the nearest unit
in_hundredths(p) == Point(100 * p[1], 100 * p[2])
to_world_units(p) == Point(Round(p[1], 100), Round(p[2], 100))

\* will_collide_with_any_obstacle for a point given in hundredths
will_collide_in_hundredths(p, obs) ==
    \E i \in 1..Len(obs) :
        will_collide_with_obstacle(
            p, Obstacle(100 * obs[i].center[1], 100 * obs[i].center[2],
                        100 * obs[i].size),
            100 * robot_radius, 100 * current_safety_margin)

\* the n-th test point of get_safe_position_near_point, n from 0, in
\* hundredths: attempt n \div 17 has search radius (2 + n \div 17) * margin,
\* and the angles of an attempt are 0, 22, ..., 352 degrees
safe_position_test_point(target, n) ==
    LET search_radius == current_safety_margin * 2
                         + (n \div 17) * current_safety_margin
        k == (n % 17) + 1
    IN  Point(100 * target[1] + Round(search_radius * cos22[k], 10),
              100 * target[2] + Round(search_radius * sin22[k], 10))

safe_position_accepts_mutant_unbounded(test_point, obs, width, height) ==
    ~will_collide_in_hundredths(test_point, obs)

\* lines 135-137: the test point is inside the canvas and does not collide
safe_position_accepts(test_point, obs, width, height) ==
    /\ 0 <= test_point[1] /\ test_point[1] < 100 * width
    /\ 0 <= test_point[2] /\ test_point[2] < 100 * height
    /\ ~will_collide_in_hundredths(test_point, obs)

\* CollisionDetector.get_safe_position_near_point with max_attempts = 16, its
\* value in hundredths: the target if it does not collide; else the first
\* accepted test point; else the target clamped into the canvas
get_safe_position_near_point(target, obs, width, height) ==
    LET tests == 0..(16 * 17 - 1)
        ok(n) == safe_position_accepts(safe_position_test_point(target, n),
                                       obs, width, height)
    IN  IF ~will_collide_with_any_obstacle(target, obs, robot_radius,
                                           current_safety_margin)
        THEN in_hundredths(target)
        ELSE IF \E n \in tests : ok(n)
        THEN safe_position_test_point(
                 target, CHOOSE n \in tests : ok(n) /\ \A m \in tests : m < n => ~ok(m))
        ELSE in_hundredths(
                 Point(Max2(robot_radius, Min2(width - robot_radius, target[1])),
                       Max2(robot_radius, Min2(height - robot_radius, target[2]))))

\* targets and obstacle lists for get_safe_position_near_point: free
\* targets, targets with a free test point nearby, targets in a corner of the
\* canvas, and obstacles that cover every test point
SafePositionTargets ==
    {Point(0, 0), Point(20, 20), Point(30, 10), Point(48, 38), Point(25, 15),
     Point(49, 0), Point(-3, 45), Point(10, 30), Point(47, 20), Point(35, 35),
     Point(0, 40)}

SafePositionObstacles ==
    {<<>>, <<Obstacle(0, 0, 2)>>, <<Obstacle(20, 20, 14)>>,
     <<Obstacle(48, 38, 2)>>, <<Obstacle(30, 10, 2), Obstacle(33, 10, 6)>>,
     <<Obstacle(20, 20, 36)>>, <<Obstacle(0, 0, 36)>>,
     <<Obstacle(47, 20, 10), Obstacle(25, 15, 2)>>,
     <<Obstacle(49, 0, 4), Obstacle(10, 30, 20)>>,
     <<Obstacle(-3, 45, 36)>>, <<Obstacle(48, 38, 30), Obstacle(30, 10, 30)>>,
     <<Obstacle(25, 15, 20), Obstacle(0, 0, 10)>>,
     <<Obstacle(0, 40, 3), Obstacle(3, 36, 1)>>}

QuerySafePosition(target, obs) ==
    /\ pc = "idle"
    /\ query' = [fn |-> "get_safe_position_near_point", target |-> target,
                 obstacles |-> obs,
                 result |-> get_safe_position_near_point(
                                target, obs, canvas_width, canvas_height)]
    /\ op' = "get_safe_position_near_point"
    /\ UNCHANGED <<detector_vars, ai_vars, grid_vars, last_search_iterations,
                   call_vars, last_increment, fallback_vars>>

NextSafePosition ==
    \E target \in SafePositionTargets, obs \in SafePositionObstacles :
        QuerySafePosition(target, obs)

SpecSafePosition == Init /\ [][NextSafePosition]_vars

\* the index of the first colliding waypoint; with none, the index of the
\* end of the first segment that is not clear; with none, -1
predict_collision_along_path(p, obs) ==
    LET hit == {i \in 1..Len(p) :
                    will_collide_with_any_obstacle(p[i], obs, robot_radius,
                                                   current_safety_margin)}
        cut == {i \in 1..(Len(p) - 1) : ~is_path_clear(p[i], p[i + 1], obs)}
        first(S) == CHOOSE i \in S : \A j \in S : i <= j
    IN  IF hit # {} THEN first(hit) - 1
        ELSE IF cut # {} THEN first(cut)
        ELSE -1

\* segment ends for is_path_clear: free points, a point on an obstacle's
\* centre and a point inside an obstacle's clearance
PathClearPoints ==
    {Point(5, 5), Point(30, 10), Point(20, 20), Point(42, 21), Point(2, 2)}

QueryPathClear(start_point, end_point, obs) ==
    /\ pc = "idle"
    /\ query' = [fn |-> "is_path_clear", start |-> start_point,
                 end |-> end_point, obstacles |-> obs,
                 result |-> is_path_clear(start_point, end_point, obs)]
    /\ op' = "is_path_clear"
    /\ UNCHANGED <<detector_vars, ai_vars, grid_vars, last_search_iterations,
                   call_vars, last_increment, fallback_vars>>

NextPathClear ==
    \E start_point \in PathClearPoints, end_point \in PathClearPoints,
       obs \in ObstacleLists :
        QueryPathClear(start_point, end_point, obs)

SpecPathClear == Init /\ [][NextPathClear]_vars

create_expanded_mutant_single(obs, radius, margin) ==
    [i \in 1..Len(obs) |->
        Obstacle(obs[i].center[1], obs[i].center[2],
                 obs[i].size + radius + margin)]

\* one new Obstacle per input, in order: the same centre, the size grown by
\* 2 * expansion, expansion = robot_radius + current_safety_margin
create_expanded_obstacles(obs, radius, margin) ==
    [i \in 1..Len(obs) |->
        Obstacle(obs[i].center[1], obs[i].center[2],
                 obs[i].size + 2 * (radius + margin))]

\* robot positions on and around the clearance circles of the obstacles below
ExpandedPoints == {Point(3 * i, 4 * j) : i \in 0..4, j \in 0..3} \cup {Point(7, 7)}

ExpandedObstacleLists ==
    {<<>>, <<Obstacle(3, 4, 4)>>, <<Obstacle(3, 4, 3)>>,
     <<Obstacle(6, 6, 0), Obstacle(3, 4, 4)>>,
     <<Obstacle(3, 4, 14), Obstacle(12, 0, 2), Obstacle(3, 4, 4)>>}

\* create_expanded_obstacles(obs) next to will_collide_with_obstacle(robot_pos, o)
\* for each o of obs, under one SafetyState; `obstacles` is the argument list
\* as it is after the call
QueryExpandedObstacles(robot_pos, obs) ==
    /\ pc = "idle"
    /\ query' = [fn |-> "create_expanded_obstacles", robot_pos |-> robot_pos,
                 input |-> obs, obstacles |-> obs,
                 margin |-> current_safety_margin,
                 collides |-> [i \in 1..Len(obs) |->
                                  will_collide_with_obstacle(
                                      robot_pos, obs[i], robot_radius,
                                      current_safety_margin)],
                 result |-> create_expanded_obstacles(
                                obs, robot_radius, current_safety_margin)]
    /\ op' = "create_expanded_obstacles"
    /\ UNCHANGED <<detector_vars, ai_vars, grid_vars, last_search_iterations,
                   call_vars, last_increment, fallback_vars>>

NextExpanded ==
    \/ \E count \in 0..MaxCollisions : UpdateSafetyMargin(count, DefaultIncrement)
    \/ \E robot_pos \in ExpandedPoints, obs \in ExpandedObstacleLists :
           QueryExpandedObstacles(robot_pos, obs)

SpecExpanded == Init /\ [][NextExpanded]_vars

(***************************************************************************)
(* RefinedPathfinder.find_path_with_fallbacks as a state machine.  fb.pc   *)
(* names the find_path call the ladder is at; each call runs through the   *)
(* find_path machine above, and one action per call site takes its result  *)
(* and moves the ladder on.                                                *)
(***************************************************************************)
\* for heuristic_type in ["manhattan", "diagonal"], by the name of the site
heuristic_fallbacks_mutant_reversed == <<"heuristic_diagonal", "heuristic_manhattan">>

heuristic_fallbacks_mutant_short == <<"heuristic_manhattan">>

heuristic_fallbacks == <<"heuristic_manhattan", "heuristic_diagonal">>

\* the call sites of find_path in the ladder, in program order
Sites == <<"standard_astar", "heuristic_manhattan", "heuristic_diagonal",
           "fine_grid", "intermediate_path1", "intermediate_path2", "safe_goal">>

strategy_name_mutant_constant(site) == "standard_astar"

\* the name appended to fallback_strategies_used when the search at a site
\* gives the returned path
strategy_name(site) ==
    IF site \in {"intermediate_path1", "intermediate_path2"}
    THEN "intermediate_waypoint"
    ELSE site

\* the heuristic_type argument of the call at a site
site_heuristic(site) ==
    IF site = "heuristic_manhattan" THEN "manhattan"
    ELSE IF site = "heuristic_diagonal" THEN "diagonal"
    ELSE "euclidean"

\* the frame with the search that has just returned added to its searches
logged(f) ==
    [f EXCEPT !.searches = Append(@, [site |-> f.pc, found |-> path # <<>>])]

\* return smoothed_path
succeed(f, raw) ==
    [f EXCEPT !.pc = "done", !.found = raw,
              !.result = smooth_path(raw, f.obstacles)]

\* strategy 5 up to its find_path call, or return None
enter_strategy5(f) ==
    LET safe_goal == get_safe_position_near_point(f.goal, f.obstacles,
                                                  canvas_width, canvas_height)
    IN  IF safe_goal # in_hundredths(f.goal)
        THEN [f EXCEPT !.pc = "safe_goal", !.safe_goal = to_world_units(safe_goal)]
        ELSE [f EXCEPT !.pc = "done", !.safe_goal = f.goal, !.result = <<>>]

combine_paths_mutant_keep_duplicate(path1, path2) == path1 \o path2

\* line 342: combined_path = path1 + path2[1:]
combine_paths(path1, path2) == path1 \o Tail(path2)

\* _find_path_via_intermediate_point: on to the first safe candidate after
\* index k; with none left the strategy returns None and strategy 5 follows
next_candidate(f, k) ==
    LET safe == {i \in (k + 1)..Len(f.candidates) :
                     is_world_point_safe(f.candidates[i], f.obstacles)}
    IN  IF safe # {}
        THEN [f EXCEPT !.pc = "intermediate_path1", !.path1 = <<>>,
                       !.index = CHOOSE i \in safe : \A j \in safe : i <= j]
        ELSE enter_strategy5(f)

enter_strategy4(f) ==
    next_candidate(
        [f EXCEPT !.candidates = generate_intermediate_candidates(f.start, f.goal)],
        0)

set_grid_size_mutant_stale(size) ==
    /\ grid_size' = size
    /\ UNCHANGED <<grid_width, grid_height>>

\* _recalculate_grid_dimensions after self.grid_size = size
set_grid_size(size) ==
    /\ grid_size' = size
    /\ grid_width' = canvas_width \div size
    /\ grid_height' = canvas_height \div size

restore_mutant_keep_fine(size) == UNCHANGED <<grid_size, grid_width, grid_height>>

\* lines 289-291: self.grid_size = original_grid_size and the recalculation
restore_grid_size(size) == set_grid_size(size)

fallback_frame_mutant_widen ==
    /\ current_safety_margin' = current_safety_margin + DefaultIncrement
    /\ UNCHANGED <<robot_radius, base_safety_margin, collision_count,
                   collision_history, ai_vars, canvas_width, canvas_height,
                   last_search_iterations, op, last_increment, query,
                   fallback_calls, fallback_failures, threads>>

\* what no step of find_path_with_fallbacks assigns
fallback_frame ==
    UNCHANGED <<detector_vars, ai_vars, canvas_width, canvas_height,
                last_search_iterations, op, last_increment, query,
                fallback_calls, fallback_failures, threads>>

\* lines 256-258: the call, and self.fallback_strategies_used = []
FindPathWithFallbacks(s, g, obs) ==
    /\ pc = "idle" /\ fb.pc = "idle"
    /\ fallback_calls < MaxFallbackCalls
    /\ fallback_calls' = fallback_calls + 1
    /\ fallback_strategies_used' = <<>>
    /\ fb' = [NoFallback EXCEPT !.pc = "standard_astar", !.start = s,
                                !.goal = g, !.obstacles = obs,
                                !.entry_grid = <<grid_size, grid_width, grid_height>>]
    /\ op' = "find_path_with_fallbacks"
    /\ UNCHANGED <<detector_vars, ai_vars, grid_vars, last_search_iterations,
                   call_vars, last_increment, query, failed_attempts,
                   fallback_failures, threads>>

\* the find_path call at the site the ladder is at
FallbackSearch ==
    /\ pc = "idle"
    /\ \E i \in 1..Len(Sites) : fb.pc = Sites[i]
    /\ find_path_enter(
           IF fb.pc = "intermediate_path2" THEN fb.candidates[fb.index]
                                           ELSE fb.start,
           IF fb.pc = "intermediate_path1" THEN fb.candidates[fb.index]
           ELSE IF fb.pc = "safe_goal" THEN fb.safe_goal
           ELSE fb.goal,
           fb.obstacles, site_heuristic(fb.pc))
    /\ fallback_frame
    /\ UNCHANGED <<grid_size, grid_width, grid_height, failed_attempts,
                   fallback_strategies_used, fb>>

\* lines 261-268: strategy 1 has returned
Strategy1Return ==
    /\ pc = "done" /\ fb.pc = "standard_astar"
    /\ find_path_leave
    /\ IF path # <<>>
       THEN /\ fb' = succeed(logged(fb), path)
            /\ fallback_strategies_used' =
                   Append(fallback_strategies_used, strategy_name(fb.pc))
            /\ UNCHANGED failed_attempts
       ELSE /\ failed_attempts' = failed_attempts + 1
            /\ fb' = [logged(fb) EXCEPT !.pc = heuristic_fallbacks[1]]
            /\ UNCHANGED fallback_strategies_used
    /\ fallback_frame
    /\ UNCHANGED <<grid_size, grid_width, grid_height>>

\* lines 271-277 and 280-284: a search of strategy 2 has returned; after the
\* last one strategy 3 changes the grid size if it is above 5
Strategy2Return ==
    /\ pc = "done" /\ fb.pc \in Range(heuristic_fallbacks)
    /\ find_path_leave
    /\ LET i == CHOOSE j \in 1..Len(heuristic_fallbacks) :
                    heuristic_fallbacks[j] = fb.pc
       IN  IF path # <<>>
           THEN /\ fb' = succeed(logged(fb), path)
                /\ fallback_strategies_used' =
                       Append(fallback_strategies_used, strategy_name(fb.pc))
                /\ UNCHANGED <<grid_size, grid_width, grid_height>>
           ELSE IF i < Len(heuristic_fallbacks)
           THEN /\ fb' = [logged(fb) EXCEPT !.pc = heuristic_fallbacks[i + 1]]
                /\ UNCHANGED <<fallback_strategies_used, grid_size, grid_width,
                               grid_height>>
           ELSE IF grid_size > 5
           THEN /\ fb' = [logged(fb) EXCEPT !.pc = "fine_grid",
                                            !.original_grid_size = grid_size]
                /\ set_grid_size(Max2(5, grid_size \div 2))
                /\ UNCHANGED fallback_strategies_used
           ELSE /\ fb' = enter_strategy4(logged(fb))
                /\ UNCHANGED <<fallback_strategies_used, grid_size, grid_width,
                               grid_height>>
    /\ fallback_frame
    /\ UNCHANGED failed_attempts

\* lines 286-296: the search on the finer grid has returned; the grid size is
\* restored before the result is looked at
Strategy3Return ==
    /\ pc = "done" /\ fb.pc = "fine_grid"
    /\ find_path_leave
    /\ restore_grid_size(fb.original_grid_size)
    /\ IF path # <<>>
       THEN /\ fb' = succeed(logged(fb), path)
            /\ fallback_strategies_used' =
                   Append(fallback_strategies_used, strategy_name(fb.pc))
       ELSE /\ fb' = enter_strategy4(logged(fb))
            /\ UNCHANGED fallback_strategies_used
    /\ fallback_frame
    /\ UNCHANGED failed_attempts

\* lines 337-346 and 300-303: a search of strategy 4 has returned: after
\* path1 comes path2 from the same candidate; both found, the combined path is
\* smoothed and returned; else the next safe candidate is tried
Strategy4Return ==
    /\ pc = "done" /\ fb.pc \in {"intermediate_path1", "intermediate_path2"}
    /\ find_path_leave
    /\ IF path = <<>>
       THEN /\ fb' = next_candidate(logged(fb), fb.index)
            /\ UNCHANGED fallback_strategies_used
       ELSE IF fb.pc = "intermediate_path1"
       THEN /\ fb' = [logged(fb) EXCEPT !.pc = "intermediate_path2",
                                        !.path1 = path]
            /\ UNCHANGED fallback_strategies_used
       ELSE /\ fb' = succeed(logged(fb), combine_paths(fb.path1, path))
            /\ fallback_strategies_used' =
                   Append(fallback_strategies_used, strategy_name(fb.pc))
    /\ fallback_frame
    /\ UNCHANGED <<grid_size, grid_width, grid_height, failed_attempts>>

\* lines 312-319: the search against the displaced goal has returned
Strategy5Return ==
    /\ pc = "done" /\ fb.pc = "safe_goal"
    /\ find_path_leave
    /\ IF path # <<>>
       THEN /\ fb' = succeed(logged(fb), path)
            /\ fallback_strategies_used' =
                   Append(fallback_strategies_used, strategy_name(fb.pc))
       ELSE /\ fb' = [logged(fb) EXCEPT !.pc = "done", !.result = <<>>]
            /\ UNCHANGED fallback_strategies_used
    /\ fallback_frame
    /\ UNCHANGED <<grid_size, grid_width, grid_height, failed_attempts>>

\* the caller takes the result; the locals of the call are gone
FallbackReturn ==
    /\ pc = "idle" /\ fb.pc = "done"
    /\ fb' = NoFallback
    /\ fallback_failures' = IF fb.result = <<>> THEN fallback_failures + 1
                                                ELSE fallback_failures
    /\ UNCHANGED <<detector_vars, ai_vars, grid_vars, last_search_iterations,
                   call_vars, op, last_increment, query, failed_attempts,
                   fallback_strategies_used, fallback_calls, threads>>

(***************************************************************************)
(* The engine with its fallback ladder: a RefinedPathfinder on the         *)
(* fallback canvas with its collision detector, called with start, goal    *)
(* and obstacle snapshot from bounded sets.                                *)
(***************************************************************************)
\* the calls: start, goal and obstacle snapshot
FallbackScenarios ==
    { <<Point(53, 45), Point(53, 41), <<>>>>,
      <<Point(65, 11), Point(65, 33), <<Obstacle(30, 10, 14)>>>>,
      <<Point(63, 37), Point(13, 35), <<Obstacle(50, 20, 30)>>>>,
      <<Point(27, 35), Point(7, 7), <<Obstacle(20, 0, 2)>>>>,
      <<Point(17, 1), Point(15, 15), <<Obstacle(10, 10, 2)>>>>,
      <<Point(5, 37), Point(63, 17), <<>>>>,
      <<Point(27, 33), Point(3, 3), <<Obstacle(0, 10, 14)>>>>,
      <<Point(45, 35), Point(45, 19),
        <<Obstacle(50, 50, 14), Obstacle(30, 10, 30)>>>>,
      <<Point(59, 7), Point(39, 39), <<Obstacle(30, 20, 30)>>>>,
      <<Point(5, 5), Point(75, 5), <<>>>>,
      <<Point(67, 49), Point(19, 13), <<Obstacle(50, 50, 2)>>>>,
      <<Point(50, 22), Point(13, 35), <<Obstacle(50, 20, 8)>>>>,
      <<Point(50, 22), Point(20, 20),
        <<Obstacle(50, 20, 8), Obstacle(20, 20, 2)>>>> }

InitFallback ==
    /\ robot_radius \in RobotRadii
    /\ base_safety_margin \in BaseMargins
    /\ current_safety_margin = base_safety_margin
    /\ collision_count = 0
    /\ collision_history = <<>>
    /\ ai_collision_count = 0
    /\ robot_position = Point(5, 5)
    /\ current_path = <<>> /\ current_waypoint_index = 0
    /\ canvas_width = FallbackCanvasWidth /\ canvas_height = FallbackCanvasHeight
    /\ grid_size = GRID_SIZE
    /\ grid_width = FallbackCanvasWidth \div GRID_SIZE
    /\ grid_height = FallbackCanvasHeight \div GRID_SIZE
    /\ last_search_iterations = 0
    /\ IdleCall
    /\ op = "init"
    /\ last_increment = DefaultIncrement
    /\ query = NoQuery
    /\ InitFallbackState

NextFallback ==
    \/ \E sc \in FallbackScenarios :
           FindPathWithFallbacks(sc[1], sc[2], sc[3])
    \/ FallbackSearch
    \/ ExploreGoal
    \/ ExploreExpand
    \/ LoopExit
    \/ Strategy1Return
    \/ Strategy2Return
    \/ Strategy3Return
    \/ Strategy4Return
    \/ Strategy5Return
    \/ FallbackReturn

SpecFallback == InitFallback /\ [][NextFallback]_vars

(***************************************************************************)
(* find_path on calls that end in each way: the goal popped, the open set  *)
(* emptied before the cap, the open set emptied by the pass that reaches   *)
(* the cap, and the cap reached with entries still open.                   *)
(***************************************************************************)
StopScenarios ==
    { <<Point(5, 5), Point(42, 21), <<>>>>,
      <<Point(5, 5), Point(20, 29), <<Obstacle(40, 20, 36)>>>>,
      <<Point(5, 5), Point(45, 25), <<Obstacle(40, 20, 2)>>>>,
      <<Point(5, 5), Point(20, 29), <<Obstacle(40, 20, 36), Obstacle(0, 30, 2)>>>> }

NextStop ==
    \/ \E sc \in StopScenarios, type \in HeuristicTypes :
           FindPath(sc[1], sc[2], sc[3], type)
    \/ ExploreGoal
    \/ ExploreExpand
    \/ LoopExit
    \/ Return

SpecStop == Init /\ [][NextStop]_vars

\* searches in which closed cells are met again: with the manhattan heuristic
\* the first one finds a cheaper route to a cell it has already closed
ClosedScenarios ==
    { <<Point(5, 35), Point(47, 19), <<Obstacle(20, 20, 2), Obstacle(0, 5, 2)>>>>,
      <<Point(45, 5), Point(3, 15), <<Obstacle(20, 10, 2), Obstacle(15, 15, 6)>>>>,
      <<Point(5, 5), Point(20, 29), <<Obstacle(40, 20, 36)>>>>,
      <<Point(5, 5), Point(45, 25), <<Obstacle(40, 20, 2)>>>> }

NextClosed ==
    \/ \E sc \in ClosedScenarios, type \in HeuristicTypes :
           FindPath(sc[1], sc[2], sc[3], type)
    \/ ExploreGoal
    \/ ExploreExpand
    \/ LoopExit
    \/ Return

SpecClosed == Init /\ [][NextClosed]_vars

(***************************************************************************)
(* CollisionDetector.parse_obstacles_from_api.  A value of the decoded     *)
(* JSON is a number, a string that float() reads as a number, any other    *)
(* string, or null; a key can be missing from a record; an entry of the    *)
(* list is a mapping or something else.                                    *)
(***************************************************************************)
Num(n) == [kind |-> "number", value |-> n]
NumStr(n) == [kind |-> "numeric_string", value |-> n]
Text == [kind |-> "text", value |-> 0]
Null == [kind |-> "null", value |-> 0]
Missing == [kind |-> "missing", value |-> 0]

Mapping(x, y, size) == [mapping |-> TRUE, x |-> x, y |-> y, size |-> size]
NotAMapping == [mapping |-> FALSE, x |-> Missing, y |-> Missing, size |-> Missing]

\* obs_data.get(key, default), the value at the key already looked up
get(value, default) == IF value.kind = "missing" THEN Num(default) ELSE value

\* float(v): the number, or the exception raised
float(v) ==
    CASE v.kind \in {"number", "numeric_string"} -> [raised |-> None, value |-> v.value]
      [] v.kind = "text" -> [raised |-> "ValueError", value |-> 0]
      [] OTHER -> [raised |-> "TypeError", value |-> 0]

\* the body of the loop for one entry: the exception that leaves the loop,
\* or the obstacles with the entry's obstacle appended or the entry skipped
parse_entry(obs_data, parsed) ==
    IF ~obs_data.mapping
    THEN [raised |-> "AttributeError", obstacles |-> parsed]
    ELSE LET x == float(get(obs_data.x, 0))
             y == float(get(obs_data.y, 0))
             size == float(get(obs_data.size, DefaultSize))
         IN  IF x.raised # None \/ y.raised # None \/ size.raised # None
             THEN [raised |-> None, obstacles |-> parsed]
             ELSE [raised |-> None,
                   obstacles |-> Append(parsed,
                                        Obstacle(x.value, y.value, size.value))]

\* the loop from entry i on; an exception that the except clause does not
\* name ends the call
RECURSIVE parse_from(_, _, _)
parse_from(obstacles_data, i, parsed) ==
    IF i > Len(obstacles_data) THEN [raised |-> None, obstacles |-> parsed]
    ELSE LET r == parse_entry(obstacles_data[i], parsed)
         IN  IF r.raised # None THEN [raised |-> r.raised, obstacles |-> <<>>]
             ELSE parse_from(obstacles_data, i + 1, r.obstacles)

parse_obstacles_from_api(obstacles_data) == parse_from(obstacles_data, 1, <<>>)

\* the entries of the lists given to the parser
ApiRecords ==
    { Mapping(Num(10), Num(20), Num(14)),
      Mapping(NumStr(30), Num(10), Num(2)),
      Mapping(Text, Num(10), Num(2)),
      Mapping(Num(10), Null, Num(2)),
      Mapping(Missing, Num(10), Num(2)),
      Mapping(Num(10), Num(20), Missing),
      NotAMapping }

ApiLists == UNION {[1..n -> ApiRecords] : n \in 0..MaxRecords}

QueryParseObstacles(obstacles_data) ==
    /\ pc = "idle"
    /\ query' = [fn |-> "parse_obstacles_from_api", data |-> obstacles_data,
                 result |-> parse_obstacles_from_api(obstacles_data)]
    /\ op' = "parse_obstacles_from_api"
    /\ UNCHANGED <<detector_vars, ai_vars, grid_vars, last_search_iterations,
                   call_vars, last_increment, fallback_vars>>

NextParse == \E obstacles_data \in ApiLists : QueryParseObstacles(obstacles_data)

SpecParse == Init /\ [][NextParse]_vars

(***************************************************************************)
(* utils.Point: equality and hash.  Here a coordinate is an integer number *)
(* of ten-thousandths of a world unit, so that points closer than the      *)
(* tolerance of 0.001 can be told apart.                                   *)
(***************************************************************************)
\* round(c, 3): the nearest multiple of 0.001, for a coordinate that is not
\* halfway between two of them
round3(c) == ((c + Tolerance \div 2) \div Tolerance) * Tolerance

\* Point.__eq__
Point_eq(p, q) ==
    Abs(p[1] - q[1]) < Tolerance /\ Abs(p[2] - q[2]) < Tolerance

\* Point.__hash__: the hash of the tuple of rounded coordinates; tuples that
\* differ are taken to hash differently
Point_hash(p) == <<round3(p[1]), round3(p[2])>>

\* the coordinates of the points compared, none halfway between two
\* multiples of 0.001
FineCoordinates == {-6, -4, 0, 4, 6, 8, 12, 14, 16}
FinePoints == {Point(x, y) : x \in FineCoordinates, y \in {0, 3}}

QueryPointPair(p, q) ==
    /\ pc = "idle"
    /\ query' = [fn |-> "point_eq_hash", p |-> p, q |-> q,
                 eq |-> Point_eq(p, q),
                 hash_p |-> Point_hash(p), hash_q |-> Point_hash(q)]
    /\ op' = "point_eq_hash"
    /\ UNCHANGED <<detector_vars, ai_vars, grid_vars, last_search_iterations,
                   call_vars, last_increment, fallback_vars>>

NextPoint == \E p \in FinePoints, q \in FinePoints : QueryPointPair(p, q)

SpecPoint == Init /\ [][NextPoint]_vars

(***************************************************************************)
(* The grid mapper on its own: a pathfinder built with a grid size from    *)
(* 1 to MaxGridSize, its mapping functions applied to cells and to world   *)
(* points on both sides of the origin.                                     *)
(***************************************************************************)
GridCells == {Point(x, y) : x \in -3..3, y \in {-2, 0, 5}}
GridPoints == {Point(x, y) : x \in -13..13, y \in {-7, 0, 11}}

InitGrid ==
    /\ robot_radius \in RobotRadii
    /\ base_safety_margin \in BaseMargins
    /\ current_safety_margin = base_safety_margin
    /\ collision_count = 0
    /\ collision_history = <<>>
    /\ ai_collision_count = 0
    /\ robot_position = Point(5, 5)
    /\ current_path = <<>> /\ current_waypoint_index = 0
    /\ canvas_width = CanvasWidth /\ canvas_height = CanvasHeight
    /\ grid_size \in 1..MaxGridSize
    /\ grid_width = CanvasWidth \div grid_size
    /\ grid_height = CanvasHeight \div grid_size
    /\ last_search_iterations = 0
    /\ IdleCall
    /\ op = "init"
    /\ last_increment = DefaultIncrement
    /\ query = NoQuery
    /\ InitFallbackState

QueryRoundTrip(cell) ==
    /\ pc = "idle"
    /\ query' = [fn |-> "world_to_grid", cell |-> cell,
                 world |-> grid_to_world(cell),
                 result |-> world_to_grid(grid_to_world(cell))]
    /\ op' = "world_to_grid"
    /\ UNCHANGED <<detector_vars, ai_vars, grid_vars, last_search_iterations,
                   call_vars, last_increment, fallback_vars>>

QuerySnapToGrid(point) ==
    /\ pc = "idle"
    /\ query' = [fn |-> "snap_to_grid", point |-> point,
                 result |-> snap_to_grid(point),
                 again |-> snap_to_grid(snap_to_grid(point))]
    /\ op' = "snap_to_grid"
    /\ UNCHANGED <<detector_vars, ai_vars, grid_vars, last_search_iterations,
                   call_vars, last_increment, fallback_vars>>

NextGrid ==
    \/ \E cell \in GridCells : QueryRoundTrip(cell)
    \/ \E point \in GridPoints : QuerySnapToGrid(point)

SpecGrid == InitGrid /\ [][NextGrid]_vars

(***************************************************************************)
(* Properties of the SafetyState and of the collision predicate.           *)
(***************************************************************************)

\* C1: will_collide_with_obstacle(p, o) is true exactly when
\* distance(p, o.center) < robot_radius + o.radius + current margin, and it is
\* false at exact tangency.  On doubled lengths: with D = (2 * distance)^2 and
\* c = 2 * (robot_radius + o.radius + margin), both integers, sqrt(D) < c
\* exactly when floor(sqrt(D)) < c.
C1_CollidesIffStrictlyInside ==
    query.fn = "will_collide_with_obstacle" =>
        LET D == 4 * DistanceSq(query.robot_pos, query.obstacle.center)
            c == 2 * robot_radius + query.obstacle.size + 2 * query.margin
        IN  /\ query.result = (Isqrt(D) < c)
            /\ (D = c * c => query.result = FALSE)

\* a query at exact tangency, answered "no collision"
C1_Witness ==
    /\ query.fn = "will_collide_with_obstacle"
    /\ LET D == 4 * DistanceSq(query.robot_pos, query.obstacle.center)
           c == 2 * robot_radius + query.obstacle.size + 2 * query.margin
       IN  c > 0 /\ D = c * c
    /\ query.result = FALSE

\* C2: in every state reached by update_safety_margin, record_collision and
\* reset operations, current margin = base margin + collision count * the
\* increment of the last update.
C2_MarginInvariant ==
    current_safety_margin = base_safety_margin + collision_count * last_increment

\* three recorded collisions, then update_safety_margin(3, 5) from base 10: 25
C2_Witness ==
    /\ op = "update_safety_margin"
    /\ Len(collision_history) = 3
    /\ base_safety_margin = 10 /\ collision_count = 3 /\ last_increment = 5
    /\ current_safety_margin = 25

\* C3: the current margin never decreases from one state to the next unless
\* the step is an explicit reset.
C3_MarginNeverDecreases ==
    [][op' # "reset_navigation" => current_safety_margin' >= current_safety_margin]_vars

\* C4: record_collision appends exactly one entry (position, margin at that
\* time) and leaves margin and count unchanged, also when the websocket
\* handler calls it after its margin update; no operation removes or alters
\* an entry of the history.
C4_HistoryAppendOnly ==
    [][/\ Len(collision_history') >= Len(collision_history)
       /\ SubSeq(collision_history', 1, Len(collision_history)) = collision_history
       /\ op' = "record_collision" =>
              /\ \E pos \in Positions :
                     collision_history' = Append(collision_history,
                         [position |-> pos, obstacle |-> None,
                          safety_margin |-> current_safety_margin])
              /\ UNCHANGED <<current_safety_margin, collision_count>>
       /\ op' = "websocket_collision" =>
              collision_history' = Append(collision_history,
                  [position |-> robot_position, obstacle |-> None,
                   safety_margin |-> current_safety_margin'])
       /\ op' \notin {"record_collision", "websocket_collision"} =>
              UNCHANGED collision_history
      ]_vars

\* a collision recorded under a widened margin, after an earlier entry
C4_Witness ==
    /\ op = "record_collision"
    /\ Len(collision_history) >= 2
    /\ current_safety_margin > base_safety_margin
    /\ collision_history[Len(collision_history)].safety_margin = current_safety_margin

(***************************************************************************)
(* Properties of find_path.                                                *)
(***************************************************************************)
Succeeded == pc = "done" /\ outcome = "goal_reached"

\* a precondition of the running call fails: the start or goal cell is outside
\* the grid, or the start or goal world point collides
PreconditionFails ==
    \/ ~is_valid_grid_point(world_to_grid(start))
    \/ ~is_valid_grid_point(world_to_grid(goal))
    \/ will_collide_with_any_obstacle(start, obstacles, robot_radius,
                                      current_safety_margin)
    \/ will_collide_with_any_obstacle(goal, obstacles, robot_radius,
                                      current_safety_margin)

\* C5: if the start or goal cell lies outside the grid, or the start or goal
\* point collides under the current SafetyState, find_path returns failure at
\* once: the call never enters the loop, pops nothing and expands nothing.
C5_PreconditionFailureIsImmediate ==
    (pc \in {"explore", "done"} /\ PreconditionFails) =>
        /\ pc = "done"
        /\ outcome \in {"out_of_bounds", "blocked"}
        /\ path = <<>>
        /\ iterations = 0 /\ current_grid = None
        /\ open_set = {} /\ closed_set = NoCells

\* a call whose start point is inside an obstacle's collision boundary
C5_Witness ==
    /\ pc = "done" /\ outcome = "blocked"
    /\ will_collide_with_any_obstacle(start, obstacles, robot_radius,
                                      current_safety_margin)
    /\ is_valid_grid_point(world_to_grid(goal))

\* C6: whenever find_path succeeds, every waypoint of the returned path, the
\* first (the snapped start) and the last (the snapped goal) included, is
\* non-colliding with every obstacle under the SafetyState of the call.
C6_WaypointsCollisionFree ==
    Succeeded =>
        \A i \in 1..Len(path) : is_world_point_safe(path[i], obstacles)

\* C7: whenever find_path succeeds, the path has length >= 1, begins with
\* snap_to_grid(start) and ends with snap_to_grid(goal); its length is exactly 1
\* when start and goal fall in the same cell.
C7_PathEndpoints ==
    Succeeded =>
        /\ Len(path) >= 1
        /\ path[1] = snap_to_grid(start)
        /\ path[Len(path)] = snap_to_grid(goal)
        /\ (world_to_grid(start) = world_to_grid(goal) => Len(path) = 1)

\* a path of several waypoints from a start that is not on a grid corner
C7_Witness ==
    /\ Succeeded
    /\ Len(path) >= 3
    /\ start # snap_to_grid(start) /\ goal # snap_to_grid(goal)

\* C8: whenever find_path succeeds, consecutive waypoints differ by a valid
\* grid step (each axis delta is 0 or +/- grid_size, not both 0) and every
\* waypoint's cell is inside the grid.
C8_ValidGridSteps ==
    Succeeded =>
        /\ \A i \in 1..Len(path) : is_valid_grid_point(world_to_grid(path[i]))
        /\ \A i \in 1..(Len(path) - 1) :
               LET dx == Abs(path[i + 1][1] - path[i][1])
                   dy == Abs(path[i + 1][2] - path[i][2])
               IN  /\ dx \in {0, grid_size} /\ dy \in {0, grid_size}
                   /\ ~(dx = 0 /\ dy = 0)

\* a path with an orthogonal and a diagonal step around an obstacle
C8_Witness ==
    /\ Succeeded
    /\ obstacles # <<>>
    /\ \E i, j \in 1..(Len(path) - 1) :
           /\ Abs(path[i + 1][1] - path[i][1]) + Abs(path[i + 1][2] - path[i][2])
                  = grid_size
           /\ Abs(path[j + 1][1] - path[j][1]) + Abs(path[j + 1][2] - path[j][2])
                  = 2 * grid_size

RECURSIVE PathCost(_)
PathCost(p) ==
    IF Len(p) <= 1 THEN 0
    ELSE get_movement_cost(p[1], p[2]) + PathCost(Tail(p))

\* the least cost from the cells of D to every cell reachable from them by
\* 8-connected steps into in-bounds, collision-free cells; D and the result
\* are sets of <<cell, cost>> with one pair per cell
RECURSIVE ShortestCosts(_, _)
ShortestCosts(D, obs) ==
    LET cand == D \cup UNION {
                    {<<nb, d[2] + get_movement_cost(grid_to_world(d[1]),
                                                    grid_to_world(nb))>> :
                        nb \in Range(get_valid_neighbors(d[1], obs))} : d \in D}
        best == {p \in cand : \A q \in cand : q[1] = p[1] => p[2] <= q[2]}
    IN  IF best = D THEN D ELSE ShortestCosts(best, obs)

OptimalCost(from_cell, to_cell, obs) ==
    LET D == ShortestCosts({<<from_cell, 0>>}, obs)
    IN  (CHOOSE d \in D : d[1] = to_cell)[2]

\* C10: when find_path succeeds with the euclidean heuristic, the total edge
\* cost of the returned path is minimal among all 8-connected paths through
\* in-bounds, collision-free cells from the start cell to the goal cell.
C10_EuclideanPathOptimal ==
    (Succeeded /\ heuristic_type = "euclidean") =>
        PathCost(path) = OptimalCost(world_to_grid(start), world_to_grid(goal),
                                     obstacles)

(***************************************************************************)
(* Properties of smooth_path.                                              *)
(***************************************************************************)

\* r is p with some elements left out
RECURSIVE IsSubsequence(_, _)
IsSubsequence(r, p) ==
    IF r = <<>> THEN TRUE
    ELSE IF p = <<>> THEN FALSE
    ELSE IF Head(r) = Head(p) THEN IsSubsequence(Tail(r), Tail(p))
    ELSE IsSubsequence(r, Tail(p))

\* C11: for every input path of length >= 2 and every obstacle set,
\* smooth_path returns a subsequence of the input whose first and last
\* elements are the input's first and last, with 2 <= length <= input length.
C11_SmoothIsSubsequence ==
    (query.fn = "smooth_path" /\ Len(query.path) >= 2) =>
        LET p == query.path
            r == query.result
        IN  /\ IsSubsequence(r, p)
            /\ 2 <= Len(r) /\ Len(r) <= Len(p)
            /\ r[1] = p[1] /\ r[Len(r)] = p[Len(p)]

\* a path of four distinct waypoints smoothed to fewer, around an obstacle
C11_Witness ==
    /\ query.fn = "smooth_path"
    /\ query.obstacles # <<>>
    /\ Len(query.path) = 4
    /\ Cardinality(Range(query.path)) = 4
    /\ Len(query.result) = 3

\* C12: smooth_path is idempotent: with the obstacles and the SafetyState
\* fixed, smoothing a smoothed path returns it unchanged.
C12_SmoothIdempotent ==
    query.fn = "smooth_path" =>
        smooth_path(query.result, query.obstacles) = query.result

(***************************************************************************)
(* Properties of the search statistics.                                    *)
(***************************************************************************)

\* the place of a call site's strategy in the ladder
StrategyRank(site) ==
    CASE site = "standard_astar" -> 1
      [] site = "heuristic_manhattan" -> 2
      [] site = "heuristic_diagonal" -> 3
      [] site = "fine_grid" -> 4
      [] site \in {"intermediate_path1", "intermediate_path2"} -> 5
      [] site = "safe_goal" -> 6

\* the searches of the running ladder call that belong to a strategy
SearchesOf(rank) ==
    {i \in 1..Len(fb.searches) : StrategyRank(fb.searches[i].site) = rank}

LadderSucceeded == fb.pc = "done" /\ fb.result # <<>>

LadderFailed == fb.pc = "done" /\ fb.result = <<>>

(***************************************************************************)
(* Two find_path_with_fallbacks calls on one engine.  RobotNavigationAI    *)
(* re-plans from the navigation loop (_execute_navigation_step) and from   *)
(* the websocket thread (_handle_collision_response); both go through      *)
(* calculate_path_to_goal to the same pathfinder, and no lock is taken.    *)
(* A thread's step is one statement of the ladder that reads or writes the *)
(* grid; the searches are steps whose outcome is left open.                *)
(***************************************************************************)
thread_frame ==
    UNCHANGED <<detector_vars, ai_vars, canvas_width, canvas_height,
                last_search_iterations, call_vars, op, last_increment, query,
                failed_attempts, fallback_strategies_used, fb, fallback_calls,
                fallback_failures>>

at(t, label) == threads[t].pc = label
goto(t, label) == threads' = [threads EXCEPT ![t].pc = label]

\* lines 260-279: strategies 1 and 2; a path found returns from the call
ThreadStrategies12(t, found) ==
    /\ at(t, "called")
    /\ goto(t, IF found THEN "done" ELSE "guard")
    /\ UNCHANGED grid_vars /\ thread_frame

\* line 281: if self.grid_size > 5
ThreadGuard(t) ==
    /\ at(t, "guard")
    /\ goto(t, IF grid_size > 5 THEN "save" ELSE "later")
    /\ UNCHANGED grid_vars /\ thread_frame

\* line 283: original_grid_size = self.grid_size
ThreadSave(t) ==
    /\ at(t, "save")
    /\ threads' = [threads EXCEPT ![t].pc = "halve",
                                  ![t].original_grid_size = grid_size]
    /\ UNCHANGED grid_vars /\ thread_frame

\* line 284: self.grid_size = max(5, self.grid_size // 2)
ThreadHalve(t) ==
    /\ at(t, "halve")
    /\ grid_size' = Max2(5, grid_size \div 2)
    /\ goto(t, "recalculate_fine")
    /\ UNCHANGED <<canvas_width, canvas_height, grid_width, grid_height>>
    /\ thread_frame

\* lines 285 and 291: self._recalculate_grid_dimensions()
ThreadRecalculate(t) ==
    /\ at(t, "recalculate_fine") \/ at(t, "recalculate_restored")
    /\ grid_width' = canvas_width \div grid_size
    /\ grid_height' = canvas_height \div grid_size
    /\ goto(t, IF at(t, "recalculate_fine") THEN "search"
               ELSE IF threads[t].found THEN "done" ELSE "later")
    /\ UNCHANGED <<canvas_width, canvas_height, grid_size>>
    /\ thread_frame

\* line 287: path = self.find_path(start, goal, obstacles)
ThreadSearch(t, found) ==
    /\ at(t, "search")
    /\ threads' = [threads EXCEPT ![t].pc = "restore", ![t].found = found]
    /\ UNCHANGED grid_vars /\ thread_frame

\* line 290: self.grid_size = original_grid_size
ThreadRestore(t) ==
    /\ at(t, "restore")
    /\ grid_size' = threads[t].original_grid_size
    /\ goto(t, "recalculate_restored")
    /\ UNCHANGED <<canvas_width, canvas_height, grid_width, grid_height>>
    /\ thread_frame

\* lines 298-317: strategies 4 and 5, which leave the grid alone
ThreadLater(t) ==
    /\ at(t, "later")
    /\ goto(t, "done")
    /\ UNCHANGED grid_vars /\ thread_frame

\* both threads have called find_path_with_fallbacks on an engine of any
\* grid size
InitThreads ==
    /\ robot_radius \in RobotRadii
    /\ base_safety_margin \in BaseMargins
    /\ current_safety_margin = base_safety_margin
    /\ collision_count = 0
    /\ collision_history = <<>>
    /\ ai_collision_count = 0
    /\ robot_position = Point(5, 5)
    /\ current_path = <<>> /\ current_waypoint_index = 0
    /\ canvas_width = FallbackCanvasWidth /\ canvas_height = FallbackCanvasHeight
    /\ grid_size \in 1..(2 * MaxGridSize)
    /\ grid_width = FallbackCanvasWidth \div grid_size
    /\ grid_height = FallbackCanvasHeight \div grid_size
    /\ last_search_iterations = 0
    /\ IdleCall
    /\ op = "init"
    /\ last_increment = DefaultIncrement
    /\ query = NoQuery
    /\ failed_attempts = 0
    /\ fallback_strategies_used = <<>>
    /\ fb = NoFallback
    /\ fallback_calls = 0
    /\ fallback_failures = 0
    /\ threads = [t \in Threads |->
                      [NoThreadCall EXCEPT
                           !.pc = "called",
                           !.before = <<grid_size, grid_width, grid_height>>]]

NextThreads ==
    \E t \in Threads :
        \/ \E found \in BOOLEAN : ThreadStrategies12(t, found)
        \/ ThreadGuard(t)
        \/ ThreadSave(t)
        \/ ThreadHalve(t)
        \/ ThreadRecalculate(t)
        \/ \E found \in BOOLEAN : ThreadSearch(t, found)
        \/ ThreadRestore(t)
        \/ ThreadLater(t)

SpecThreads == InitThreads /\ [][NextThreads]_vars

\* C13: the searches of one find_path_with_fallbacks call come in ladder
\* order (primary, manhattan, diagonal, halved grid, intermediate waypoint,
\* displaced goal), none before the strategies ahead of it have been
\* searched; a search is followed by another one only if its strategy has not
\* produced a path; and a returned path is the smoothing of the path found by
\* the last search.
C13_LadderOrder ==
    /\ \A i \in 1..Len(fb.searches) :
           LET r == StrategyRank(fb.searches[i].site)
           IN  /\ i = 1 => r = 1
               /\ i > 1 =>
                      LET q == StrategyRank(fb.searches[i - 1].site)
                      IN  /\ q <= r
                          /\ q = r => r = 5
                          /\ ~fb.searches[i - 1].found
                               \/ /\ fb.searches[i - 1].site = "intermediate_path1"
                                  /\ fb.searches[i].site = "intermediate_path2"
               /\ fb.searches[i].site = "intermediate_path2" =>
                      /\ i > 1
                      /\ fb.searches[i - 1].site = "intermediate_path1"
                      /\ fb.searches[i - 1].found
               /\ \A k \in 1..3 : k < r => SearchesOf(k) # {}
               /\ (r > 4 /\ fb.entry_grid[1] > 5) => SearchesOf(4) # {}
    /\ LadderSucceeded =>
           /\ fb.searches # <<>>
           /\ fb.searches[Len(fb.searches)].found
           /\ fb.searches[Len(fb.searches)].site # "intermediate_path1"
           /\ fb.found # <<>>
           /\ fb.result = smooth_path(fb.found, fb.obstacles)

\* a ladder call that succeeded at its third search or later, with a path
\* that smoothing shortened
C13_Witness ==
    /\ LadderSucceeded
    /\ Len(fb.searches) >= 3
    /\ Len(fb.result) < Len(fb.found)

\* C14: when a find_path_with_fallbacks call returns, with a path or without
\* one and whichever strategy ended it, grid_size, grid_width and grid_height
\* have the values they had when the call was made.
C14_GridRestored ==
    fb.pc = "done" => <<grid_size, grid_width, grid_height>> = fb.entry_grid

\* a call that searched on the halved grid and went on to fail
C14_Witness ==
    /\ LadderFailed
    /\ SearchesOf(4) # {}
    /\ fb.entry_grid = <<GRID_SIZE, FallbackCanvasWidth \div GRID_SIZE,
                         FallbackCanvasHeight \div GRID_SIZE>>

\* C15: no step of a find_path_with_fallbacks call, the find_path calls it
\* makes included, changes the current margin, the collision count or the
\* collision history.
C15_SafetyStateUntouched ==
    [][(fb.pc # "idle" \/ fb'.pc # "idle" \/ pc # "idle" \/ pc' # "idle") =>
           UNCHANGED <<current_safety_margin, collision_count,
                       collision_history>>]_vars

\* a call that went down the ladder to the displaced goal and returned a
\* path, the margin being what it was
C15_Witness ==
    /\ LadderSucceeded
    /\ SearchesOf(6) # {}
    /\ current_safety_margin = base_safety_margin
    /\ collision_count = 0
    /\ collision_history = <<>>

\* the searches of the running ladder call made at a call site
SearchesAt(site) ==
    {i \in 1..Len(fb.searches) : fb.searches[i].site = site}

\* C16 as stated: a call that returns overall failure has searched with the
\* manhattan heuristic, with the diagonal heuristic, on the halved grid,
\* through intermediate waypoints and against the displaced goal.
C16_AllStrategiesSearched ==
    LadderFailed => \A k \in 2..6 : SearchesOf(k) # {}

\* C16: a call that returns overall failure has searched with the manhattan
\* heuristic and with the diagonal heuristic, on the halved grid if the grid
\* size was above 5, from the start to every collision-free intermediate
\* candidate and from each candidate so reached to the goal, and against the
\* displaced goal exactly when the displaced goal differs from the goal.
C16_FailureAfterFullLadder ==
    LadderFailed =>
        /\ SearchesOf(1) # {} /\ SearchesOf(2) # {} /\ SearchesOf(3) # {}
        /\ fb.entry_grid[1] > 5 => SearchesOf(4) # {}
        /\ fb.candidates = generate_intermediate_candidates(fb.start, fb.goal)
        /\ Cardinality(SearchesAt("intermediate_path1")) =
               Cardinality({i \in 1..Len(fb.candidates) :
                                is_world_point_safe(fb.candidates[i], fb.obstacles)})
        /\ Cardinality(SearchesAt("intermediate_path2")) =
               Cardinality({i \in SearchesAt("intermediate_path1") :
                                fb.searches[i].found})
        /\ fb.safe_goal = to_world_units(get_safe_position_near_point(
                              fb.goal, fb.obstacles, canvas_width, canvas_height))
        /\ SearchesOf(6) # {} <=>
               get_safe_position_near_point(fb.goal, fb.obstacles, canvas_width,
                                            canvas_height) # in_hundredths(fb.goal)

\* an overall failure whose goal collides, after a search against the
\* displaced goal
C16_Witness ==
    /\ LadderFailed
    /\ SearchesOf(6) # {}
    /\ SearchesOf(5) # {}
    /\ ~is_world_point_safe(fb.goal, fb.obstacles)

\* the names of the strategies, in ladder order
StrategyNames ==
    <<"standard_astar", "heuristic_manhattan", "heuristic_diagonal",
      "fine_grid", "intermediate_waypoint", "safe_goal">>

\* C17: when find_path_with_fallbacks returns a path, fallback_strategies_used
\* has exactly one entry, the name of the strategy of the search that found
\* the path; while a call is running, before it has found a path, the list is
\* empty, whatever an earlier call left in it.
C17_OneStrategyNamed ==
    /\ LadderSucceeded =>
           /\ Len(fallback_strategies_used) = 1
           /\ fallback_strategies_used[1] =
                  StrategyNames[StrategyRank(fb.searches[Len(fb.searches)].site)]
    /\ fb.pc \notin {"idle", "done"} => fallback_strategies_used = <<>>

\* a second call on the engine that returned a path from the halved grid,
\* after a first call that returned a path too
C17_Witness ==
    /\ LadderSucceeded
    /\ fallback_calls = 2
    /\ fallback_failures = 0
    /\ fallback_strategies_used = <<"fine_grid">>

\* C18: when find_path_with_fallbacks returns overall failure, the names of
\* the strategies searched during the call are in fallback_strategies_used.
C18_AttemptsRetained ==
    LadderFailed =>
        \A i \in 1..Len(fb.searches) :
            StrategyNames[StrategyRank(fb.searches[i].site)]
                \in Range(fallback_strategies_used)

\* C19: between calls, failed_attempts is the number of
\* find_path_with_fallbacks calls so far that returned overall failure.
C19_FailedAttemptsCountsFailures ==
    fb.pc = "idle" => failed_attempts = fallback_failures

\* C20: after every find_path call, whatever its outcome (goal reached, open
\* set exhausted, iteration limit, precondition failure),
\* last_search_iterations equals the number of cells popped during that call,
\* 0 when a precondition fails, never a value left from an earlier call.
C20_IterationsRecorded ==
    pc = "done" => last_search_iterations = iterations

\* C21: a search that ends because the open set emptied leaves a record that
\* differs from the record of a search stopped by the iteration cap: both
\* return None and set last_search_iterations, and a search stopped by the
\* cap leaves the cap there, so a search whose open set emptied does not.
C21_StopKindsDistinct ==
    (pc = "done" /\ outcome = "no_path" /\ open_set = {}) =>
        last_search_iterations # MaxIterations

\* a record with numeric x, y and size
WellFormed(obs_data) ==
    /\ obs_data.mapping
    /\ \A v \in {obs_data.x, obs_data.y, obs_data.size} :
           v.kind \in {"number", "numeric_string"}

\* C22: parse_obstacles_from_api raises nothing, and it returns the obstacles
\* of the well-formed records of its input, in input order; every other
\* entry (a non-numeric or missing x, y or size, or not a mapping) is left
\* out.
C22_ParseSkipsMalformed ==
    query.fn = "parse_obstacles_from_api" =>
        LET good == SelectSeq(query.data, WellFormed)
        IN  /\ query.result.raised = None
            /\ query.result.obstacles =
                   [i \in 1..Len(good) |->
                        Obstacle(good[i].x.value, good[i].y.value,
                                 good[i].size.value)]

\* C23: find_path is a function of its arguments, the grid and the
\* SafetyState: whatever calls ran before on the engine, a call pops the
\* cells in the order, and returns the path, that the search started afresh
\* from these inputs gives; and every pop takes an entry with the least
\* f_score key and, among the entries with that key, the one inserted first.
C23_Deterministic ==
    /\ pc = "done" =>
           LET r == find_path(start, goal, obstacles, heuristic_type)
           IN  popped = r.popped /\ path = r.path
    /\ pc = "explore" =>
           LET r == find_path(start, goal, obstacles, heuristic_type)
           IN  /\ Len(popped) <= Len(r.popped)
               /\ popped = SubSeq(r.popped, 1, Len(popped))
               /\ open_set # {} /\ iterations < MaxIterations =>
                      \E e \in open_set :
                          /\ e[3] = r.popped[Len(popped) + 1]
                          /\ \A o \in open_set \ {e} :
                                 e[1] < o[1] \/ (e[1] = o[1] /\ e[2] < o[2])

\* a second call on the engine, after a call that left another iteration
\* count behind, in which two open entries had the same f_score key and the
\* one inserted first was popped
C23_Witness ==
    /\ pc = "explore"
    /\ last_search_iterations > 0
    /\ open_set # {} /\ iterations < MaxIterations
    /\ \E e \in open_set, o \in open_set :
           /\ e[3] = find_path(start, goal, obstacles,
                               heuristic_type).popped[Len(popped) + 1]
           /\ o # e /\ o[1] = e[1] /\ e[2] < o[2]

\* C24: a call of update_safety_margin that follows a call with the same
\* collision count and the same increment leaves the current margin and the
\* collision count as the first call left them.
C24_UpdateIdempotent ==
    [][(/\ op = "update_safety_margin" /\ op' = "update_safety_margin"
        /\ collision_count' = collision_count
        /\ last_increment' = last_increment) =>
           /\ current_safety_margin' = current_safety_margin
           /\ collision_count' = collision_count]_vars

\* the state after update_safety_margin(2, 10) from base 10, which a second
\* update_safety_margin(2, 10) leaves as it is
C24_Witness ==
    /\ op = "update_safety_margin"
    /\ collision_count = 2 /\ last_increment = 2 * DefaultIncrement
    /\ base_safety_margin = 10
    /\ current_safety_margin = 30

\* C25: two Points that are equal (both coordinate differences below the
\* tolerance) have the same hash.
C25_HashConsistentWithEq ==
    query.fn = "point_eq_hash" => (query.eq => query.hash_p = query.hash_q)

C27_SafePositionSearch ==
    query.fn = "get_safe_position_near_point" =>
        LET t == query.target
            o == query.obstacles
            r == query.result
            candidate(n) == safe_position_test_point(t, n)
            free(p) == ~will_collide_in_hundredths(p, o)
            inside(p) == /\ 0 <= p[1] /\ p[1] < 100 * canvas_width
                         /\ 0 <= p[2] /\ p[2] < 100 * canvas_height
            Qualifying == {n \in 0..(16 * 17 - 1) :
                               inside(candidate(n)) /\ free(candidate(n))}
            clamp(c, bound) ==
                IF c < robot_radius THEN robot_radius
                ELSE IF c > bound - robot_radius THEN bound - robot_radius
                ELSE c
        IN  IF free(in_hundredths(t)) THEN r = in_hundredths(t)
            ELSE IF Qualifying # {}
            THEN \E n \in Qualifying :
                     /\ r = candidate(n)
                     /\ \A m \in Qualifying : n <= m
            ELSE r = in_hundredths(Point(clamp(t[1], canvas_width),
                                         clamp(t[2], canvas_height)))

\* a colliding target whose first test points are rejected (outside the
\* canvas or colliding) and for which a later test point is returned
C27_Witness ==
    /\ query.fn = "get_safe_position_near_point"
    /\ will_collide_with_any_obstacle(query.target, query.obstacles,
                                      robot_radius, current_safety_margin)
    /\ \E n \in 18..(16 * 17 - 1) :
           /\ query.result = safe_position_test_point(query.target, n)
           /\ \E m \in 0..(n - 1) :
                  LET p == safe_position_test_point(query.target, m)
                  IN  /\ ~will_collide_in_hundredths(p, query.obstacles)
                      /\ ~(0 <= p[1] /\ p[1] < 100 * canvas_width
                           /\ 0 <= p[2] /\ p[2] < 100 * canvas_height)
    /\ ~will_collide_in_hundredths(query.result, query.obstacles)

\* no test point qualified and the clamped target was returned
C27_ClampReached ==
    /\ query.fn = "get_safe_position_near_point"
    /\ will_collide_with_any_obstacle(query.target, query.obstacles,
                                      robot_radius, current_safety_margin)
    /\ \A n \in 0..(16 * 17 - 1) :
           query.result # safe_position_test_point(query.target, n)
    /\ query.result # in_hundredths(query.target)


\* C28: for all start, end and obstacles, start = end included: when
\* is_path_clear(start, end, obstacles) is true, neither start nor end collides
\* with any obstacle
C28_ClearPathHasClearEnds ==
    (query.fn = "is_path_clear" /\ query.result) =>
        /\ ~will_collide_with_any_obstacle(query.start, query.obstacles,
                                           robot_radius, current_safety_margin)
        /\ ~will_collide_with_any_obstacle(query.end, query.obstacles,
                                           robot_radius, current_safety_margin)

\* the same statement for segments of positive length
C28_ClearPathHasClearEndsDistinct ==
    (query.fn = "is_path_clear" /\ query.result /\ query.start # query.end) =>
        /\ ~will_collide_with_any_obstacle(query.start, query.obstacles,
                                           robot_radius, current_safety_margin)
        /\ ~will_collide_with_any_obstacle(query.end, query.obstacles,
                                           robot_radius, current_safety_margin)

\* C29: when two find_path_with_fallbacks calls on the same engine
\* interleave, after both have completed grid_size, grid_width and
\* grid_height equal their values before the calls, for every initial grid
\* size
C29_GridRestoredAfterInterleaving ==
    (\A t \in Threads : threads[t].pc = "done") =>
        \A t \in Threads :
            <<grid_size, grid_width, grid_height>> = threads[t].before

\* C30: within one find_path call no cell is expanded more than once: no
\* cell is popped twice, and a cell in the closed set is never in the open
\* set again, even when a cheaper route to it is found later
C30_ClosedNeverReopened ==
    /\ \A i, j \in 1..Len(popped) : i # j => popped[i] # popped[j]
    /\ \A e \in open_set : e[3] \notin closed_set
    /\ closed_set \subseteq Range(popped)

\* the cell just expanded has a closed neighbour to which the route through
\* it is cheaper than the one recorded, and the search has gone on
C30_Witness ==
    /\ pc = "explore"
    /\ Len(popped) > 0
    /\ current_grid = popped[Len(popped)]
    /\ current_grid \in closed_set
    /\ \E nb \in Range(get_valid_neighbors(current_grid, obstacles)) :
           /\ nb \in closed_set
           /\ nb # current_grid
           /\ g_score[current_grid]
              + get_movement_cost(grid_to_world(current_grid), grid_to_world(nb))
              < g_score[nb]

(***************************************************************************)
(* The heuristic against the remaining cost.                               *)
(***************************************************************************)

\* the least cost of a walk of valid grid steps from from_cell to to_cell,
\* or -1 when there is none
RemainingCost(from_cell, to_cell, obs) ==
    LET D == ShortestCosts({<<from_cell, 0>>}, obs)
    IN  IF \E d \in D : d[1] = to_cell
        THEN (CHOOSE d \in D : d[1] = to_cell)[2]
        ELSE -1

\* the heuristic value the running search holds for a cell: f_score - g_score
UsedHeuristic(cell) == f_score[cell] - g_score[cell]

\* C31: for the euclidean and diagonal heuristics, the heuristic value the
\* search uses for a cell (the start entry and the goal cell included) never
\* exceeds the least remaining cost from that cell to the goal cell over
\* 8-connected moves, for every goal point, grid-aligned or not
C31_HeuristicAdmissible ==
    (pc = "explore" /\ heuristic_type \in {"euclidean", "diagonal"}) =>
        \A cell \in DOMAIN f_score :
            LET remaining == RemainingCost(cell, world_to_grid(goal), obstacles)
            IN  remaining # -1 => UsedHeuristic(cell) <= remaining

\* the same statement for a grid-aligned goal and the cells other than the
\* start entry, whose heuristic is taken from the cell's own world point
C31_AdmissibleWhenAligned ==
    (/\ pc = "explore" /\ heuristic_type \in {"euclidean", "diagonal"}
     /\ goal = snap_to_grid(goal)) =>
        \A cell \in DOMAIN f_score \ {world_to_grid(start)} :
            LET remaining == RemainingCost(cell, world_to_grid(goal), obstacles)
            IN  remaining # -1 => UsedHeuristic(cell) <= remaining

(***************************************************************************)
(* smooth_path against the furthest reachable waypoint.                    *)
(***************************************************************************)

\* the largest j > i for which the segment p[i]..p[j] is clear, or i + 1 when
\* no waypoint beyond p[i + 1] is reachable
FurthestClear(p, i, obs) ==
    LET J == {j \in (i + 2)..Len(p) : is_path_clear(p[i], p[j], obs)}
    IN  IF J = {} THEN i + 1 ELSE CHOOSE j \in J : \A k \in J : k <= j

\* the waypoints kept after p[i] when each kept waypoint is followed by its
\* furthest clear one
RECURSIVE KeepFurthest(_, _, _)
KeepFurthest(p, i, obs) ==
    IF i >= Len(p) THEN <<>>
    ELSE LET f == FurthestClear(p, i, obs)
         IN  <<p[f]>> \o KeepFurthest(p, f, obs)

\* C32: in smooth_path, each kept waypoint path[i] is followed in the output
\* by the furthest later waypoint path[j] (largest j > i) whose segment from
\* path[i] is clear, or by path[i + 1] if no waypoint beyond it is reachable
C32_SmoothKeepsFurthest ==
    (/\ query.fn = "smooth_path" /\ query.margin = current_safety_margin
     /\ Len(query.path) > 2) =>
        query.result = <<query.path[1]>>
                       \o KeepFurthest(query.path, 1, query.obstacles)

\* the same statement for paths on which reachability from a kept waypoint
\* does not come back once lost
C32_KeepsFurthestWhenMonotone ==
    (/\ query.fn = "smooth_path" /\ query.margin = current_safety_margin
     /\ Len(query.path) > 2
     /\ \A i \in 1..Len(query.path) : \A j \in (i + 2)..Len(query.path) :
            is_path_clear(query.path[i], query.path[j], query.obstacles)
            => \A k \in (i + 2)..j :
                   is_path_clear(query.path[i], query.path[k], query.obstacles))
    => query.result = <<query.path[1]>>
                      \o KeepFurthest(query.path, 1, query.obstacles)

(***************************************************************************)
(* The intermediate-waypoint strategy.                                     *)
(***************************************************************************)

\* the ladder call has returned a path found through an intermediate point
ViaIntermediate ==
    LadderSucceeded /\ fallback_strategies_used = <<"intermediate_waypoint">>

\* both legs through candidate c succeed, computed afresh
LegsSucceed(c) ==
    /\ find_path(fb.start, c, fb.obstacles, "euclidean").path # <<>>
    /\ find_path(c, fb.goal, fb.obstacles, "euclidean").path # <<>>

\* C33: in the intermediate-waypoint strategy the candidates are tried in
\* generation order and the first one that is collision-free and for which
\* both legs succeed is used; the path before smoothing is leg 1 followed by
\* leg 2 without its first point, so that the snapped candidate appears
\* exactly once, at the junction, and consecutive waypoints are valid grid
\* steps
C33_FirstWorkingCandidate ==
    ViaIntermediate =>
        LET c == fb.candidates[fb.index]
            leg1 == find_path(fb.start, c, fb.obstacles, "euclidean").path
            leg2 == find_path(c, fb.goal, fb.obstacles, "euclidean").path
            junction == snap_to_grid(c)
            raw == fb.found
        IN  /\ fb.candidates = generate_intermediate_candidates(fb.start, fb.goal)
            /\ is_world_point_safe(c, fb.obstacles) /\ LegsSucceed(c)
            /\ \A i \in 1..(fb.index - 1) :
                   ~(/\ is_world_point_safe(fb.candidates[i], fb.obstacles)
                     /\ LegsSucceed(fb.candidates[i]))
            /\ raw = leg1 \o Tail(leg2)
            /\ raw[Len(leg1)] = junction
            /\ Cardinality({i \in 1..Len(raw) : raw[i] = junction}) = 1
            /\ \A i \in 1..(Len(raw) - 1) :
                   LET dx == Abs(raw[i + 1][1] - raw[i][1])
                       dy == Abs(raw[i + 1][2] - raw[i][2])
                   IN  /\ dx \in {0, grid_size} /\ dy \in {0, grid_size}
                       /\ ~(dx = 0 /\ dy = 0)
            /\ fb.result = smooth_path(raw, fb.obstacles)

\* a path through a candidate that is not the first collision-free one, with
\* waypoints on both sides of the junction
C33_Witness ==
    /\ ViaIntermediate
    /\ \E i \in 1..(fb.index - 1) :
           is_world_point_safe(fb.candidates[i], fb.obstacles)
    /\ \E k \in 2..(Len(fb.found) - 1) :
           fb.found[k] = snap_to_grid(fb.candidates[fb.index])

\* C34: when the target collides, get_safe_position_near_point tests exactly
\* 16 directions on each ring; the first ring has radius 2 * margin, each
\* later ring is wider by the margin, and there are at most 16 rings: the
\* value is the first qualifying point among 16 rings of 16 directions, or
\* the clamped target when none of them qualifies
C34_SixteenDirectionsPerRing ==
    (/\ query.fn = "get_safe_position_near_point"
     /\ will_collide_with_any_obstacle(query.target, query.obstacles,
                                       robot_radius, current_safety_margin)) =>
        LET t == query.target
            \* direction k of ring a, both counted from 0
            ring_point(a, k) == safe_position_test_point(t, 17 * a + k)
            Claimed == {<<a, k>> \in (0..15) \X (0..15) :
                            safe_position_accepts(ring_point(a, k), query.obstacles,
                                                  canvas_width, canvas_height)}
            before(x, y) == x[1] < y[1] \/ (x[1] = y[1] /\ x[2] <= y[2])
        IN  IF Claimed # {}
            THEN \E x \in Claimed :
                     /\ query.result = ring_point(x[1], x[2])
                     /\ \A y \in Claimed : before(x, y)
            ELSE query.result = in_hundredths(
                     Point(Max2(robot_radius,
                                Min2(canvas_width - robot_radius, t[1])),
                           Max2(robot_radius,
                                Min2(canvas_height - robot_radius, t[2]))))

\* the ring radii alone: the point returned from a ring lies, to the rounding
\* of a hundredth, at a distance of (2 + a) * margin from the target, a < 16
C34_RingRadii ==
    (/\ query.fn = "get_safe_position_near_point"
     /\ \E n \in 0..(16 * 17 - 1) :
            query.result = safe_position_test_point(query.target, n)
     /\ will_collide_with_any_obstacle(query.target, query.obstacles,
                                       robot_radius, current_safety_margin)) =>
        \E a \in 0..15 :
            LET d2 == DistanceSq(query.result, in_hundredths(query.target))
                r == 100 * (2 + a) * current_safety_margin
            IN  (r - 2) * (r - 2) <= d2 /\ d2 <= (r + 2) * (r + 2)

\* C35: at the start of every find_path call, the one on the halved grid and
\* the calls after the ladder has returned included, the grid dimensions agree
\* with the grid size: grid_width = floor(canvas_width / grid_size) and
\* grid_height = floor(canvas_height / grid_size)
C35_GridConsistentAtSearch ==
    (\/ fb.pc \in Range(Sites)
     \/ fb.pc \in {"idle", "done"} /\ fallback_calls > 0) =>
        /\ grid_width = canvas_width \div grid_size
        /\ grid_height = canvas_height \div grid_size

\* a search running on the halved grid
C35_Witness ==
    /\ fb.pc = "fine_grid" /\ pc # "idle"
    /\ grid_size = Max2(5, fb.original_grid_size \div 2)
    /\ grid_size # fb.original_grid_size
    /\ grid_width = canvas_width \div grid_size
    /\ grid_width # canvas_width \div fb.original_grid_size

\* a search of a later ladder call, after a call that went through the finer
\* grid, on the restored grid
C35_LaterCall ==
    /\ fallback_calls > 1 /\ fb.pc = "standard_astar" /\ pc # "idle"
    /\ grid_size = GRID_SIZE
    /\ grid_width = canvas_width \div GRID_SIZE

\* C36: the two representations of safety agree: will_collide_with_obstacle(p, o)
\* holds exactly when the distance of p to o's centre is less than the radius
\* (half the size) of the corresponding obstacle of create_expanded_obstacles,
\* whose size is o's size plus 2 * (robot_radius + current_safety_margin),
\* the margin being that of the SafetyState both were computed under;
\* the expanded list has one obstacle per input, in the same order, and the
\* input obstacles are unchanged
C36_ExpandedAgreesWithCollision ==
    query.fn = "create_expanded_obstacles" =>
        /\ query.obstacles = query.input
        /\ Len(query.result) = Len(query.input)
        /\ \A i \in 1..Len(query.input) :
               LET o == query.input[i]
                   e == query.result[i]
               IN  /\ e.center = o.center
                   /\ e.size = o.size + 2 * (robot_radius + query.margin)
                   \* distance < e.size / 2, both sides doubled and squared
                   /\ query.collides[i] <=>
                          (e.size > 0 /\ 4 * DistanceSq(query.robot_pos, e.center)
                                             < e.size * e.size)

\* a position exactly on the clearance circle, which neither representation
\* counts as a collision, after one just inside it in the same list, which
\* both do
C36_Witness ==
    /\ query.fn = "create_expanded_obstacles"
    /\ Len(query.input) >= 2
    /\ \E i, j \in 1..Len(query.input) :
           /\ i < j
           /\ query.collides[i] /\ ~query.collides[j]
           /\ 4 * DistanceSq(query.robot_pos, query.result[j].center)
                  = query.result[j].size * query.result[j].size
    /\ query.margin > base_safety_margin

\* C37: a path that find_path_with_fallbacks has just returned is accepted by
\* predict_collision_along_path, which returns -1 for it under the same
\* obstacles and the same SafetyState
C37_ReturnedPathAccepted ==
    (fb.pc = "done" /\ fb.result # <<>>) =>
        predict_collision_along_path(fb.result, fb.obstacles) = -1

\* C38: when the start point collides with an obstacle under the current
\* SafetyState, find_path_with_fallbacks returns failure: no strategy of the
\* ladder produces a path from a blocked start
C38_BlockedStartFails ==
    (/\ fb.pc = "done"
     /\ will_collide_with_any_obstacle(fb.start, fb.obstacles, robot_radius,
                                       current_safety_margin)) =>
        fb.result = <<>>

\* a ladder call from a blocked start that has gone through every strategy,
\* the finer grid, the intermediate waypoints and the displaced goal included
C38_Witness ==
    /\ fb.pc = "done" /\ fb.result = <<>>
    /\ will_collide_with_any_obstacle(fb.start, fb.obstacles, robot_radius,
                                      current_safety_margin)
    /\ \A site \in {"standard_astar", "fine_grid", "intermediate_path1",
                    "safe_goal"} :
           \E i \in 1..Len(fb.searches) : fb.searches[i].site = site

(***************************************************************************)
(* RobotNavigationAI: the navigation loop on the main thread and the       *)
(* collision handler on the websocket thread share current_path and        *)
(* current_waypoint_index without a lock.  Each step below is one access,  *)
(* or one run of statements that touch nothing the other thread writes;    *)
(* the planner's answer is left open: None or a path to the goal.          *)
(***************************************************************************)
\* the waypoints of the longest path; a path planned later, from further on,
\* is a suffix of it
NavWaypoints == <<Point(10, 10), Point(20, 10), Point(30, 20), Point(40, 20)>>

\* what find_path_with_fallbacks can return to calculate_path_to_goal
PlannedPaths ==
    {<<>>} \cup {SubSeq(NavWaypoints, k, Len(NavWaypoints)) :
                     k \in 1..Len(NavWaypoints)}

\* a thread outside any call
NoNavCall == [pc |-> "idle", current_waypoint |-> None]

nav_frame ==
    UNCHANGED <<grid_vars, last_search_iterations, call_vars, last_increment,
                query, failed_attempts, fallback_strategies_used, fb,
                fallback_calls, fallback_failures>>

\* line 347: if not self.current_path or index >= len(self.current_path):
\* return False
NavCheck ==
    /\ at("navigation", "idle")
    /\ goto("navigation",
            IF current_path = <<>> \/ current_waypoint_index >= Len(current_path)
            THEN "stopped" ELSE "read_waypoint")
    /\ op' = "_execute_navigation_step"
    /\ UNCHANGED <<detector_vars, ai_vars>> /\ nav_frame

\* line 351: current_waypoint = self.current_path[self.current_waypoint_index];
\* None is not subscriptable and an index past the end raises
NavReadWaypoint ==
    /\ at("navigation", "read_waypoint")
    /\ IF current_path # <<>> /\ current_waypoint_index < Len(current_path)
       THEN threads' = [threads EXCEPT
                !["navigation"].pc = "predict",
                !["navigation"].current_waypoint =
                    current_path[current_waypoint_index + 1]]
       ELSE goto("navigation", "raised")
    /\ UNCHANGED <<detector_vars, ai_vars, op>> /\ nav_frame

\* lines 354-355: remaining_path = self.current_path[index:] and the
\* prediction on it, whose answer depends on the obstacles: a collision
\* predicted leads to calculate_path_to_goal, none to the move
NavPredict(predicted) ==
    /\ at("navigation", "predict")
    /\ goto("navigation",
            IF current_path = <<>> THEN "raised"
            ELSE IF predicted THEN "plan" ELSE "move")
    /\ UNCHANGED <<detector_vars, ai_vars, op>> /\ nav_frame

\* lines 269-273: self.current_path = find_path_with_fallbacks(...)
AssignPath(t, planned) ==
    /\ at(t, "plan")
    /\ current_path' = planned
    /\ goto(t, IF planned # <<>> THEN "reset_index"
               ELSE IF t = "navigation" THEN "stopped" ELSE "idle")
    /\ UNCHANGED <<detector_vars, ai_collision_count, robot_position,
                   current_waypoint_index, op>>
    /\ nav_frame

\* lines 275-276: if self.current_path: self.current_waypoint_index = 0
ResetIndex(t) ==
    /\ at(t, "reset_index")
    /\ current_waypoint_index' = 0
    /\ goto(t, "idle")
    /\ UNCHANGED <<detector_vars, ai_collision_count, robot_position,
                   current_path, op>>
    /\ nav_frame

\* lines 366-377: the message with len(self.current_path), which raises on
\* None, the move command, which returns False when it could not be sent,
\* self.robot_position = current_waypoint.copy() and
\* self.current_waypoint_index += 1
NavMove(sent) ==
    /\ at("navigation", "move")
    /\ IF current_path = <<>>
       THEN /\ goto("navigation", "raised")
            /\ UNCHANGED <<robot_position, current_waypoint_index>>
       ELSE IF ~sent
       THEN /\ goto("navigation", "stopped")
            /\ UNCHANGED <<robot_position, current_waypoint_index>>
       ELSE /\ robot_position' = threads["navigation"].current_waypoint
            /\ current_waypoint_index' = current_waypoint_index + 1
            /\ goto("navigation", "check_previous")
    /\ UNCHANGED <<detector_vars, ai_collision_count, current_path, op>>
    /\ nav_frame

\* line 380: if self.current_waypoint_index > 1
NavCheckPrevious ==
    /\ at("navigation", "check_previous")
    /\ goto("navigation",
            IF current_waypoint_index > 1 THEN "read_previous" ELSE "final")
    /\ UNCHANGED <<detector_vars, ai_vars, op>> /\ nav_frame

\* line 381: prev_waypoint = self.current_path[self.current_waypoint_index - 2]
NavReadPrevious ==
    /\ at("navigation", "read_previous")
    /\ goto("navigation",
            IF /\ current_path # <<>>
               /\ current_waypoint_index - 2 >= 0
               /\ current_waypoint_index - 2 < Len(current_path)
            THEN "final" ELSE "raised")
    /\ UNCHANGED <<detector_vars, ai_vars, op>> /\ nav_frame

\* lines 387-395: the test for the final waypoint, len(None) raising, and
\* return True: the loop takes its next step
NavFinal ==
    /\ at("navigation", "final")
    /\ goto("navigation", IF current_path = <<>> THEN "raised" ELSE "idle")
    /\ UNCHANGED <<detector_vars, ai_vars, op>> /\ nav_frame

\* _process_websocket_message on a collision message, lines 168-170, and
\* _handle_collision_response up to its calculate_path_to_goal, lines 444-451
WebsocketCollision ==
    /\ at("websocket", "idle")
    /\ ai_collision_count < MaxCollisions
    /\ Len(collision_history) < MaxHistory
    /\ ai_collision_count' = ai_collision_count + 1
    /\ update_safety_margin(ai_collision_count + 1, DefaultIncrement)
    /\ record_collision(robot_position, None)
    /\ goto("websocket", "plan")
    /\ op' = "websocket_collision"
    /\ UNCHANGED <<robot_radius, base_safety_margin, robot_position,
                   current_path, current_waypoint_index, grid_vars,
                   last_search_iterations, call_vars, query, failed_attempts,
                   fallback_strategies_used, fb, fallback_calls,
                   fallback_failures>>
    /\ last_increment' = DefaultIncrement

\* navigate_to_goal has planned the first path and enters its loop
InitNavigation ==
    /\ robot_radius \in RobotRadii
    /\ base_safety_margin \in BaseMargins
    /\ current_safety_margin = base_safety_margin
    /\ collision_count = 0
    /\ collision_history = <<>>
    /\ ai_collision_count = 0
    /\ robot_position = Point(5, 5)
    /\ current_path \in PlannedPaths \ {<<>>}
    /\ current_waypoint_index = 0
    /\ canvas_width = CanvasWidth /\ canvas_height = CanvasHeight
    /\ grid_size = GRID_SIZE
    /\ grid_width = CanvasWidth \div GRID_SIZE
    /\ grid_height = CanvasHeight \div GRID_SIZE
    /\ last_search_iterations = 0
    /\ IdleCall
    /\ op = "init"
    /\ last_increment = DefaultIncrement
    /\ query = NoQuery
    /\ failed_attempts = 0
    /\ fallback_strategies_used = <<>>
    /\ fb = NoFallback
    /\ fallback_calls = 0
    /\ fallback_failures = 0
    /\ threads = [t \in Threads |-> NoNavCall]

NextNavigation ==
    \/ NavCheck
    \/ NavReadWaypoint
    \/ \E predicted \in BOOLEAN : NavPredict(predicted)
    \/ \E t \in Threads, planned \in PlannedPaths : AssignPath(t, planned)
    \/ \E t \in Threads : ResetIndex(t)
    \/ \E sent \in BOOLEAN : NavMove(sent)
    \/ NavCheckPrevious
    \/ NavReadPrevious
    \/ NavFinal
    \/ WebsocketCollision

SpecNavigation == InitNavigation /\ [][NextNavigation]_vars

\* C39: under every interleaving of the navigation loop with the websocket
\* collision handler, whenever _execute_navigation_step is about to read
\* current_path[current_waypoint_index] or
\* current_path[current_waypoint_index - 2], current_path is not None and the
\* index is within its bounds
C39_DereferenceInBounds ==
    /\ at("navigation", "read_waypoint") =>
           /\ current_path # <<>>
           /\ current_waypoint_index \in 0..(Len(current_path) - 1)
    /\ at("navigation", "read_previous") =>
           /\ current_path # <<>>
           /\ current_waypoint_index - 2 \in 0..(Len(current_path) - 1)

\* with the websocket thread silent, every read is in bounds
C39_InBoundsWhenSerial ==
    (ai_collision_count = 0 /\ at("websocket", "idle")) => C39_DereferenceInBounds

====
